---- MODULE Spec2Model ----
(***************************************************************************)
(* A model of the opvm register machine: the interpreter loop of vm/vm.rs, *)
(* the value type of types/mod.rs and vm/field.rs, the register file of    *)
(* vm/register.rs and the arena heap of vm/heap.rs.                        *)
(*                                                                         *)
(* Values (Field/Type) are records tagged by t:                            *)
(*   Byte, Short, Int, UInt, Char, Bool : [t, n]                           *)
(*   Float                              : [t, k, n]  k in fin/nan/inf/ninf,*)
(*                                        n the value in halves            *)
(*   String                             : [t, s]     s a sequence of bytes *)
(*   Pointer                            : [t, n, size]  n the address as   *)
(*                                        an offset from the arena bottom  *)
(*   Register                           : [t, r]                           *)
(*   RegisterWithOffsets                : [t, r, offsets]                  *)
(* Strings, symbols included, are sequences of character codes.            *)
(***************************************************************************)
EXTENDS Integers, Sequences, FiniteSets, TLC

VARIABLES
    vms,          \* the VMs constructed so far (Vm::new)
    instructions, \* per VM: Vm.instructions
    labels,       \* per VM: Vm.labels, symbol -> instruction index
    data,         \* per VM: Vm.data, symbol -> Field
    registers,    \* per VM: the sixteen general registers of Registers
    flags,        \* per VM: equals_flag, less_than_flag, greater_than_flag
    slots,        \* per VM: the reflection fields stack_len, call_stack_len, pc
    stack,        \* per VM: Vm.stack, the operand stack (top is the last element)
    call_stack,   \* per VM: Vm.call_stack (top is the last element)
    pc,           \* per VM: Vm.pc
    reflection,   \* per VM: Vm.reflection
    status,       \* per VM: where execute stands: running, ok, error, panic, ub
    err,          \* per VM: the Error execute returned, when status is error
    heap_mem,     \* HEAP_MEM, the one static arena; -1 is a byte the model leaves open
    holes,        \* HEAP_INSTANCE's allocator: its free list, ordered by address
    heap_corrupt, \* a hole header in HEAP_MEM was overwritten through a pointer
    runs,         \* history: per VM, the calls of execute so far
    allocs,       \* history: the allocations handed out and not freed since, with their owner
    last          \* history: the instruction dispatched by the latest step, with the state it saw

vars == <<vms, instructions, labels, data, registers, flags, slots, stack, call_stack,
          pc, reflection, status, err, heap_mem, holes, heap_corrupt, allocs, runs,
          last>>

-----------------------------------------------------------------------------
(* Bounds of the model. *)

\* The width the model gives i64 and usize (the program's are 64 bits wide).
WordBits == 12
\* The deepest call stack and operand stack a run may build.
MaxCallDepth == 3
MaxStack == 3

(* Program constants. *)
MAX_HEAP_SIZE == 100
\* size_of::<Hole>() and align_of::<Hole>() of the allocator behind Heap.
HoleSize == 16
HoleAlign == 8
ByteBits == 8
ShortBits == 16

Pow2(n) == 2 ^ n

Max(a, b) == IF a >= b THEN a ELSE b
Min(a, b) == IF a <= b THEN a ELSE b

\* x reduced to an unsigned integer of the given width (wrapping_* on u8, u16, usize).
WrapU(x, bits) == x % Pow2(bits)
\* x reduced to a two's-complement integer of the given width (wrapping_* on i64).
WrapS(x, bits) == ((x + Pow2(bits - 1)) % Pow2(bits)) - Pow2(bits - 1)

-----------------------------------------------------------------------------
(* Field constructors: the From impls of vm/field.rs. *)

TypeByte(b) == [t |-> "Byte", n |-> b]
TypeShort(x) == [t |-> "Short", n |-> x]
TypeInt(i) == [t |-> "Int", n |-> i]
TypeUInt(u) == [t |-> "UInt", n |-> u]
TypeChar(c) == [t |-> "Char", n |-> c]
TypeBool(b) == [t |-> "Bool", n |-> IF b THEN 1 ELSE 0]
TypeString(s) == [t |-> "String", s |-> s]
TypeFloat(h) == [t |-> "Float", k |-> "fin", n |-> h]
NaN == [t |-> "Float", k |-> "nan", n |-> 0]
Inf == [t |-> "Float", k |-> "inf", n |-> 0]
NegInf == [t |-> "Float", k |-> "ninf", n |-> 0]
TypePointer(a, sz) == [t |-> "Pointer", n |-> a, size |-> sz]
TypeRegister(r) == [t |-> "Register", r |-> r]
RegisterOffset(f, op) == [offset |-> f, operand |-> op]
TypeRegisterWithOffsets(r, offs) == [t |-> "RegisterWithOffsets", r |-> r, offsets |-> offs]

\* Field::default()
FieldDefault == TypeInt(0)

Register == {"ra", "rb", "rc", "rd", "re", "rf",
             "r0", "r1", "r2", "r3", "r4", "r5", "r6", "r7", "r8", "r9"}

Instruction(op, operand) == [opcode |-> op, operand |-> operand]

-----------------------------------------------------------------------------
(* Arithmetic on Type: types/mod.rs. An operator applied to a pair of kinds *)
(* the add_types! macro does not list panics; Panicked stands for that.     *)

Panicked == [t |-> "panic"]

\* Rust's integer division and remainder truncate toward zero.
TruncDiv(a, b) ==
    IF (a >= 0) = (b > 0) THEN (IF a >= 0 THEN a ELSE -a) \div (IF b > 0 THEN b ELSE -b)
    ELSE -((IF a >= 0 THEN a ELSE -a) \div (IF b > 0 THEN b ELSE -b))
TruncRem(a, b) == a - b * TruncDiv(a, b)

MinInt == -Pow2(WordBits - 1)
MaxInt == Pow2(WordBits - 1) - 1
\* `as i64` of a usize, `as usize` of an i64
AsI64(u) == WrapS(u, WordBits)
AsUsize(i) == WrapU(i, WordBits)
\* a plain (checked) i64 operation: it panics on overflow
Checked(x) == IF x < MinInt \/ x > MaxInt THEN Panicked ELSE TypeInt(x)

RECURSIVE XorNat(_, _)
XorNat(a, b) ==
    IF a = 0 THEN b ELSE IF b = 0 THEN a
    ELSE (IF (a % 2) = (b % 2) THEN 0 ELSE 1) + 2 * XorNat(a \div 2, b \div 2)

IsNum(a) == a.t \in {"Byte", "Short", "Int", "UInt", "Char"}

\* f64 arithmetic in halves; NaN and the infinities follow IEEE-754.
FloatSign(a) == IF a.k = "inf" THEN 1 ELSE IF a.k = "ninf" THEN -1
                ELSE IF a.n > 0 THEN 1 ELSE IF a.n < 0 THEN -1 ELSE 0
FloatOfSign(sg) == IF sg > 0 THEN Inf ELSE IF sg < 0 THEN NegInf ELSE NaN
FloatAdd(a, b) ==
    IF a.k = "nan" \/ b.k = "nan" THEN NaN
    ELSE IF a.k = "fin" /\ b.k = "fin" THEN TypeFloat(a.n + b.n)
    ELSE IF a.k = "fin" THEN b
    ELSE IF b.k = "fin" \/ a.k = b.k THEN a
    ELSE NaN
FloatNeg(a) == IF a.k = "fin" THEN TypeFloat(-a.n) ELSE IF a.k = "inf" THEN NegInf
               ELSE IF a.k = "ninf" THEN Inf ELSE NaN
FloatMul(a, b) ==
    IF a.k = "nan" \/ b.k = "nan" THEN NaN
    ELSE IF a.k = "fin" /\ b.k = "fin" THEN TypeFloat(TruncDiv(a.n * b.n, 2))
    ELSE FloatOfSign(FloatSign(a) * FloatSign(b))
FloatDiv(a, b) ==
    IF a.k = "nan" \/ b.k = "nan" THEN NaN
    ELSE IF a.k = "fin" /\ b.k = "fin"
         THEN IF b.n = 0 THEN FloatOfSign(FloatSign(a)) ELSE TypeFloat(TruncDiv(2 * a.n, b.n))
    ELSE IF a.k = "fin" THEN TypeFloat(0)
    ELSE IF b.k = "fin" THEN FloatOfSign(FloatSign(a) * (IF b.n < 0 THEN -1 ELSE 1))
    ELSE NaN
\* `as f64` of an integer
AsF64(i) == TypeFloat(2 * i)

\* impl Add for Type
TypeAdd(a, b) ==
    CASE a.t = "Byte" /\ b.t = "Byte" -> TypeByte(WrapU(a.n + b.n, ByteBits))
      [] a.t = "Short" /\ b.t = "Short" -> TypeShort(WrapU(a.n + b.n, ShortBits))
      [] a.t = "Int" /\ b.t = "Int" -> TypeInt(WrapS(a.n + b.n, WordBits))
      [] a.t = "UInt" /\ b.t = "UInt" -> TypeUInt(WrapU(a.n + b.n, WordBits))
      [] a.t = "Float" /\ b.t = "Float" -> FloatAdd(a, b)
      [] a.t = "Char" /\ b.t = "Char" -> TypeInt(a.n + b.n)
      [] a.t = "UInt" /\ b.t = "Int" -> Checked(AsI64(a.n) + b.n)
      [] a.t = "Int" /\ b.t = "UInt" -> Checked(a.n + AsI64(b.n))
      [] OTHER -> Panicked

\* impl Sub for Type
TypeSub(a, b) ==
    CASE a.t = "Byte" /\ b.t = "Byte" -> TypeByte(WrapU(a.n - b.n, ByteBits))
      [] a.t = "Short" /\ b.t = "Short" -> TypeShort(WrapU(a.n - b.n, ShortBits))
      [] a.t = "Int" /\ b.t = "Int" -> TypeInt(WrapS(a.n - b.n, WordBits))
      [] a.t = "UInt" /\ b.t = "UInt" -> TypeUInt(WrapU(a.n - b.n, WordBits))
      [] a.t = "Float" /\ b.t = "Float" -> FloatAdd(a, FloatNeg(b))
      [] a.t = "Char" /\ b.t = "Char" -> TypeInt(a.n - b.n)
      [] a.t = "UInt" /\ b.t = "Int" -> Checked(AsI64(a.n) - b.n)
      [] a.t = "Int" /\ b.t = "UInt" -> Checked(a.n - AsI64(b.n))
      [] OTHER -> Panicked

\* impl Mul for Type
TypeMul(a, b) ==
    CASE a.t = "Byte" /\ b.t = "Byte" -> TypeByte(WrapU(a.n * b.n, ByteBits))
      [] a.t = "Short" /\ b.t = "Short" -> TypeShort(WrapU(a.n * b.n, ShortBits))
      [] a.t = "Int" /\ b.t = "Int" -> TypeInt(WrapS(a.n * b.n, WordBits))
      [] a.t = "UInt" /\ b.t = "UInt" -> TypeUInt(WrapU(a.n * b.n, WordBits))
      [] a.t = "Float" /\ b.t = "Float" -> FloatMul(a, b)
      [] a.t = "Char" /\ b.t = "Char" -> TypeInt(a.n * b.n)
      [] a.t = "UInt" /\ b.t = "Int" -> Checked(AsI64(a.n) * b.n)
      [] a.t = "Int" /\ b.t = "UInt" -> Checked(a.n * AsI64(b.n))
      [] a.t = "UInt" /\ b.t = "Float" -> FloatMul(AsF64(a.n), b)
      [] a.t = "Float" /\ b.t = "UInt" -> FloatMul(AsF64(b.n), a)
      [] a.t = "Int" /\ b.t = "Float" -> FloatMul(AsF64(a.n), b)
      [] a.t = "Float" /\ b.t = "Int" -> FloatMul(AsF64(b.n), a)
      [] OTHER -> Panicked

\* impl Div for Type: wrapping_div and `/` panic on a zero divisor
TypeDiv(a, b) ==
    CASE a.t = "Float" /\ b.t = "Float" -> FloatDiv(a, b)
      [] IsNum(a) /\ IsNum(b) /\ b.n = 0
         /\ (a.t = b.t \/ {a.t, b.t} = {"Int", "UInt"}) -> Panicked
      [] a.t = "Byte" /\ b.t = "Byte" -> TypeByte(a.n \div b.n)
      [] a.t = "Short" /\ b.t = "Short" -> TypeShort(a.n \div b.n)
      [] a.t = "Int" /\ b.t = "Int" -> TypeInt(WrapS(TruncDiv(a.n, b.n), WordBits))
      [] a.t = "UInt" /\ b.t = "UInt" -> TypeUInt(a.n \div b.n)
      [] a.t = "Char" /\ b.t = "Char" -> TypeInt(a.n \div b.n)
      [] a.t = "UInt" /\ b.t = "Int" -> Checked(TruncDiv(AsI64(a.n), b.n))
      [] a.t = "Int" /\ b.t = "UInt" ->
            IF AsI64(b.n) = 0 THEN Panicked ELSE Checked(TruncDiv(a.n, AsI64(b.n)))
      [] OTHER -> Panicked

\* impl Rem for Type: `%` panics on a zero divisor and on i64::MIN % -1
TypeRem(a, b) ==
    CASE IsNum(a) /\ IsNum(b) /\ a.t = b.t /\ b.n = 0 -> Panicked
      [] a.t = "Byte" /\ b.t = "Byte" -> TypeByte(a.n % b.n)
      [] a.t = "Short" /\ b.t = "Short" -> TypeShort(a.n % b.n)
      [] a.t = "Int" /\ b.t = "Int" ->
            IF a.n = MinInt /\ b.n = -1 THEN Panicked ELSE TypeInt(TruncRem(a.n, b.n))
      [] a.t = "UInt" /\ b.t = "UInt" -> TypeUInt(a.n % b.n)
      [] a.t = "Char" /\ b.t = "Char" -> TypeInt(a.n % b.n)
      [] OTHER -> Panicked

\* impl BitXor for Type
TypeBitXor(a, b) ==
    CASE a.t = "Byte" /\ b.t = "Byte" -> TypeByte(XorNat(a.n, b.n))
      [] a.t = "Short" /\ b.t = "Short" -> TypeShort(XorNat(a.n, b.n))
      [] a.t = "Int" /\ b.t = "Int" -> TypeInt(AsI64(XorNat(AsUsize(a.n), AsUsize(b.n))))
      [] a.t = "UInt" /\ b.t = "UInt" -> TypeUInt(XorNat(a.n, b.n))
      [] a.t = "Char" /\ b.t = "Char" -> TypeInt(XorNat(a.n, b.n))
      [] OTHER -> Panicked

-----------------------------------------------------------------------------
(* Equality and ordering on Type: impl PartialEq / PartialOrd, types/mod.rs. *)

\* #[derive(PartialOrd)] on enum Register orders the variants as declared.
RegisterOrder == <<"ra", "rb", "rc", "rd", "re", "rf",
                   "r0", "r1", "r2", "r3", "r4", "r5", "r6", "r7", "r8", "r9">>
RegisterIndex(r) == CHOOSE i \in 1..Len(RegisterOrder) : RegisterOrder[i] = r

CmpInt(a, b) == IF a < b THEN "Less" ELSE IF a > b THEN "Greater" ELSE "Equal"

\* the lexicographic order of byte strings (str::partial_cmp)
RECURSIVE CmpSeq(_, _)
CmpSeq(a, b) ==
    IF a = <<>> /\ b = <<>> THEN "Equal"
    ELSE IF a = <<>> THEN "Less"
    ELSE IF b = <<>> THEN "Greater"
    ELSE IF Head(a) # Head(b) THEN CmpInt(Head(a), Head(b))
    ELSE CmpSeq(Tail(a), Tail(b))

\* f64: NaN is unordered and unequal to everything, itself included
FloatCmp(a, b) ==
    IF a.k = "nan" \/ b.k = "nan" THEN "None"
    ELSE IF a.k = "fin" /\ b.k = "fin" THEN CmpInt(a.n, b.n)
    ELSE CmpInt(FloatSign(a) * (IF a.k = "fin" THEN 0 ELSE 1),
                FloatSign(b) * (IF b.k = "fin" THEN 0 ELSE 1))

RECURSIVE TypeEq(_, _)
\* impl PartialEq for RegisterOffset
RegisterOffsetEq(l, r) == TypeEq(l.offset, r.offset) /\ l.operand = r.operand
\* the zip of the two offset lists holds no unequal pair
OffsetsZipEq(l0, r0) ==
    \A i \in 1..Min(Len(l0), Len(r0)) : RegisterOffsetEq(l0[i], r0[i])

\* impl PartialEq for Type
TypeEq(a, b) ==
    CASE a.t # b.t -> FALSE
      [] a.t \in {"Byte", "Short", "Int", "UInt", "Char", "Bool"} -> a.n = b.n
      [] a.t = "Float" -> FloatCmp(a, b) = "Equal"
      [] a.t = "String" -> a.s = b.s
      [] a.t = "Pointer" -> a.n = b.n
      [] a.t = "Register" -> a.r = b.r
      [] a.t = "RegisterWithOffsets" -> OffsetsZipEq(a.offsets, b.offsets) /\ a.r = b.r
      [] OTHER -> FALSE

\* impl PartialOrd for Type: Less, Equal, Greater, or None where unordered
TypePartialCmp(a, b) ==
    CASE a.t # b.t -> "None"
      [] a.t \in {"Byte", "Short", "Int", "UInt", "Char", "Bool"} -> CmpInt(a.n, b.n)
      [] a.t = "Float" -> FloatCmp(a, b)
      [] a.t = "String" -> CmpSeq(a.s, b.s)
      [] a.t = "Pointer" -> CmpInt(a.n, b.n)
      [] a.t = "Register" -> CmpInt(RegisterIndex(a.r), RegisterIndex(b.r))
      [] a.t = "RegisterWithOffsets" ->
            IF OffsetsZipEq(a.offsets, b.offsets)
            THEN CmpInt(RegisterIndex(a.r), RegisterIndex(b.r)) ELSE "None"
      [] OTHER -> "None"

-----------------------------------------------------------------------------
(* The heap: vm/heap.rs. Heap wraps linked_list_allocator's first-fit free  *)
(* list over the static HEAP_MEM. The allocator keeps each hole's header    *)
(* (its size and the next hole) in the first HoleSize bytes of the hole     *)
(* itself; it keeps no record of the blocks it handed out.                  *)

\* the width in bytes of i64, usize and f64
WordBytes == 8
ShortBytes == 2

\* the n low bytes of x >= 0, least significant first
RECURSIVE LeBytes(_, _)
LeBytes(x, n) == IF n = 0 THEN <<>> ELSE <<x % 256>> \o LeBytes(x \div 256, n - 1)
\* to_ne_bytes of a two's-complement integer n bytes wide (little-endian target)
NeBytes(x, n) ==
    IF x >= 0 THEN LeBytes(x, n)
    ELSE LET c == LeBytes(-x - 1, n) IN [i \in 1..n |-> 255 - c[i]]

AlignUp(x, a) == ((x + a - 1) \div a) * a
\* the part of HEAP_MEM the allocator manages after init aligns it
ArenaSize == (MAX_HEAP_SIZE \div HoleAlign) * HoleAlign
\* a byte whose value the model leaves open: allocator bookkeeping (sizes and
\* machine addresses) and the bit patterns of floats
Opaque == -1

\* Layout::from_size_align(size, 2): an error when the size exceeds isize::MAX
LayoutOk(size) == size >= 0 /\ size <= MaxInt
\* the size the allocator really reserves for a layout
AlignedSize(size) == AlignUp(Max(size, HoleSize), HoleAlign)

Hole(a, sz) == [addr |-> a, size |-> sz]

\* the first hole, from index i on, that can hold req bytes: the rest of the
\* hole must be empty or large enough for a hole header; 0 when none can
RECURSIVE FirstFit(_, _, _)
FirstFit(hs, i, req) ==
    IF i > Len(hs) THEN 0
    ELSE IF hs[i].size >= req /\ (hs[i].size = req \/ hs[i].size - req >= HoleSize) THEN i
    ELSE FirstFit(hs, i + 1, req)

\* cells [a, a + n) of mem set to the bytes of the sequence bs, where they lie in HEAP_MEM
WriteCells(mem, a, bs) ==
    [x \in DOMAIN mem |-> IF x >= a /\ x < a + Len(bs) THEN bs[x - a + 1] ELSE mem[x]]

\* the header of a hole: its size, then the address of the next hole, which
\* is null in the last hole of the list and a machine address in the others
HeaderBytes(size, has_next) ==
    NeBytes(size, WordBytes) \o [i \in 1..(HoleSize - WordBytes) |-> IF has_next THEN Opaque ELSE 0]
\* the memory with the header of every hole of the list hs written to it
WriteHeaders(mem, hs) ==
    [x \in DOMAIN mem |->
        IF \E i \in 1..Len(hs) : x >= hs[i].addr /\ x < hs[i].addr + HoleSize
        THEN LET i == CHOOSE j \in 1..Len(hs) : x >= hs[j].addr /\ x < hs[j].addr + HoleSize
             IN HeaderBytes(hs[i].size, i < Len(hs))[x - hs[i].addr + 1]
        ELSE mem[x]]

\* Heap::allocate. The result: ok, the address, and the heap after it.
HeapAllocate(h, size) ==
    IF ~LayoutOk(size) THEN [ok |-> FALSE, addr |-> 0, holes |-> h.holes, mem |-> h.mem]
    ELSE LET req == AlignedSize(size)
             i == FirstFit(h.holes, 1, req)
         IN IF i = 0 THEN [ok |-> FALSE, addr |-> 0, holes |-> h.holes, mem |-> h.mem]
            ELSE LET hole == h.holes[i]
                     rest == hole.size - req
                     back == IF rest = 0 THEN <<>> ELSE <<Hole(hole.addr + req, rest)>>
                     after == SubSeq(h.holes, 1, i - 1) \o back
                              \o SubSeq(h.holes, i + 1, Len(h.holes))
                 IN [ok |-> TRUE, addr |-> hole.addr, holes |-> after,
                     mem |-> WriteHeaders(h.mem, after)]

Overlaps(a, n, hole) == a < hole.addr + hole.size /\ hole.addr < a + n

\* the free list with adjacent holes merged
RECURSIVE Coalesce(_)
Coalesce(hs) ==
    IF Len(hs) < 2 THEN hs
    ELSE IF hs[1].addr + hs[1].size = hs[2].addr
         THEN Coalesce(<<Hole(hs[1].addr, hs[1].size + hs[2].size)>> \o SubSeq(hs, 3, Len(hs)))
         ELSE <<hs[1]>> \o Coalesce(Tail(hs))

\* the number of holes that start below address a
Below(hs, a) == Cardinality({i \in 1..Len(hs) : hs[i].addr < a})

\* Heap::deallocate. The allocator first writes a hole header at the freed
\* address, then links the hole into the list; its assertions panic when the
\* freed block overlaps a hole of the list ("Freed node aliases existing
\* hole! Bad free?"). A header written over the header of a listed hole has cut
\* the list there. Nothing ties the address to a block handed out before.
HeapDeallocate(h, a, size) ==
    IF ~LayoutOk(size) THEN [ok |-> FALSE, panic |-> FALSE, holes |-> h.holes, mem |-> h.mem]
    ELSE LET req == AlignedSize(size)
             same == {i \in 1..Len(h.holes) : h.holes[i].addr = a}
             k == Below(h.holes, a)
         IN IF \E i \in 1..Len(h.holes) : Overlaps(a, req, h.holes[i])
            THEN [ok |-> FALSE, panic |-> TRUE,
                  mem |-> WriteCells(h.mem, a, HeaderBytes(req, FALSE)),
                  holes |-> IF same = {} THEN h.holes
                            ELSE LET i == CHOOSE j \in same : TRUE
                                 IN SubSeq(h.holes, 1, i - 1) \o <<Hole(a, req)>>]
            ELSE LET after == Coalesce(SubSeq(h.holes, 1, k) \o <<Hole(a, req)>>
                                       \o SubSeq(h.holes, k + 1, Len(h.holes)))
                 IN [ok |-> TRUE, panic |-> FALSE, holes |-> after,
                     mem |-> WriteHeaders(
                                 WriteCells(h.mem, a, HeaderBytes(req, k < Len(h.holes))),
                                 after)]

\* the cells that hold the header of a hole of the free list
HeaderCells(hs) == UNION {hs[i].addr .. (hs[i].addr + HoleSize - 1) : i \in 1..Len(hs)}

-----------------------------------------------------------------------------
(* Conversions of Field: vm/field.rs. *)

\* char::to_string().as_bytes(): the UTF-8 encoding of a code point
Utf8(c) ==
    IF c < 128 THEN <<c>>
    ELSE IF c < 2048 THEN <<192 + (c \div 64), 128 + (c % 64)>>
    ELSE IF c < 65536 THEN <<224 + (c \div 4096), 128 + ((c \div 64) % 64), 128 + (c % 64)>>
    ELSE <<240 + (c \div 262144), 128 + ((c \div 4096) % 64),
           128 + ((c \div 64) % 64), 128 + (c % 64)>>

\* the decimal digits of n >= 0, as character codes
RECURSIVE Digits(_)
Digits(n) == IF n < 10 THEN <<48 + n>> ELSE Digits(n \div 10) \o <<48 + (n % 10)>>
DisplayInt(i) == IF i < 0 THEN <<45>> \o Digits(-i) ELSE Digits(i)

\* Field::to_u: [ok, u]
ToU(f) ==
    CASE f.t = "UInt" -> [ok |-> TRUE, u |-> f.n]
      [] f.t = "Int" -> [ok |-> TRUE, u |-> AsUsize(f.n)]
      [] OTHER -> [ok |-> FALSE, u |-> 0]

\* Field::to_b: [ok, bytes]
ToB(f) ==
    CASE f.t = "Byte" -> [ok |-> TRUE, bytes |-> <<f.n>>]
      [] f.t = "Int" -> [ok |-> TRUE, bytes |-> NeBytes(f.n, WordBytes)]
      [] f.t = "UInt" -> [ok |-> TRUE, bytes |-> NeBytes(f.n, WordBytes)]
      [] f.t = "String" -> [ok |-> TRUE, bytes |-> f.s]
      [] f.t = "Char" -> [ok |-> TRUE, bytes |-> Utf8(f.n)]
      [] f.t = "Short" -> [ok |-> TRUE, bytes |-> NeBytes(f.n, ShortBytes)]
      [] f.t = "Float" -> [ok |-> TRUE, bytes |-> [i \in 1..WordBytes |-> Opaque]]
      [] OTHER -> [ok |-> FALSE, bytes |-> <<>>]

\* the bytes of a sequence with the leading and trailing zero bytes trimmed
RECURSIVE TrimZeros(_)
TrimZeros(bs) ==
    IF bs = <<>> THEN bs
    ELSE IF Head(bs) = 0 THEN TrimZeros(Tail(bs))
    ELSE IF bs[Len(bs)] = 0 THEN TrimZeros(SubSeq(bs, 1, Len(bs) - 1))
    ELSE bs

\* impl Display for Field, for the kinds a program's values take; a pointer
\* shows the bytes of its block
Display(f, mem) ==
    CASE f.t \in {"Byte", "Short", "Int", "UInt"} -> DisplayInt(f.n)
      [] f.t = "Char" -> Utf8(f.n)
      [] f.t = "String" -> f.s
      [] f.t = "Bool" -> IF f.n = 1 THEN <<116, 114, 117, 101>> ELSE <<102, 97, 108, 115, 101>>
      [] f.t = "Pointer" -> TrimZeros([i \in 1..f.size |-> mem[f.n + i - 1]])
      [] f.t = "Float" ->
            IF f.k = "nan" THEN <<78, 97, 78>>
            ELSE IF f.k = "inf" THEN <<105, 110, 102>>
            ELSE IF f.k = "ninf" THEN <<45, 105, 110, 102>>
            ELSE (IF f.n < 0 THEN <<45>> ELSE <<>>)
                 \o Digits(TruncDiv(Max(f.n, -f.n), 2))
                 \o (IF f.n % 2 = 0 THEN <<>> ELSE <<46, 53>>)
      [] OTHER -> <<>>

-----------------------------------------------------------------------------
(* The interpreter: vm/vm.rs. A handler is an operator from the state of    *)
(* one VM, together with the heap it shares, to that state after the        *)
(* instruction; status tells how dispatch ended: running (the loop goes on),*)
(* ok and error (execute returned), panic (the thread unwound), ub (the     *)
(* instruction touched memory outside HEAP_MEM or called the allocator on a *)
(* free list it had overwritten: the build decides what happens next).      *)

\* Registers::reset_flags
NoFlags == [equals |-> FALSE, less_than |-> FALSE, greater_than |-> FALSE]

NoError == [message |-> "", stacktrace |-> <<>>, app_stack |-> <<>>]

\* the state of VM v and of the heap
M(v) == [id |-> v, instructions |-> instructions[v], labels |-> labels[v],
         data |-> data[v], registers |-> registers[v], flags |-> flags[v],
         slots |-> slots[v], stack |-> stack[v], call_stack |-> call_stack[v],
         pc |-> pc[v], reflection |-> reflection[v], status |-> status[v],
         err |-> err[v], mem |-> heap_mem, holes |-> holes,
         corrupt |-> heap_corrupt, allocs |-> allocs]

\* how far the disassembly window of an error reaches around pc
WindowBefore == 4
WindowAfter == 4

\* an error that also steps past the faulting instruction
VmErrorAdvancing(m, msg) == [m EXCEPT !.status = "error", !.pc = m.pc + 1]

\* Vm::error: the message, the window of instructions around pc with the
\* faulting one marked, and one line per element of the operand stack
VmError(m, msg) ==
    LET first == Max(m.pc - WindowBefore, 0)
        lastx == Min(m.pc + WindowAfter, Len(m.instructions))
    IN [m EXCEPT !.status = "error",
                 !.err = [message |-> msg,
                          stacktrace |-> [i \in 1..Max(lastx - first, 0) |->
                                            [index |-> first + i - 1,
                                             marked |-> first + i - 1 = m.pc]],
                          app_stack |-> m.stack]]

\* Error::new(msg, vec![], vec![]): an error with no window and no stack lines
BareError(m, msg) ==
    [m EXCEPT !.status = "error",
              !.err = [message |-> msg, stacktrace |-> <<>>, app_stack |-> <<>>]]

Panic(m) == [m EXCEPT !.status = "panic"]
Undefined(m) == [m EXCEPT !.status = "ub"]

\* a register write that also resets the flags
RegistersSetResettingFlags(m, r, f) ==
    [m EXCEPT !.registers[r] = f, !.flags = NoFlags]

\* Registers::set
RegistersSet(m, r, f) == [m EXCEPT !.registers[r] = f]

\* a clone that falls back to the default field
UnderlyingDataCloneDefault(f) == FieldDefault
\* Field::underlying_data_clone: every kind is copied with its payload
UnderlyingDataClone(f) == f

\* the tail of the loop body: pc += 1, then the reflection slots
EndOfStep(m) ==
    LET n == [m EXCEPT !.pc = m.pc + 1]
    IN IF n.reflection
       THEN [n EXCEPT !.slots = [stack_len |-> TypeUInt(Len(n.stack)),
                                 call_stack_len |-> TypeUInt(Len(n.call_stack)),
                                 pc |-> TypeUInt(n.pc)]]
       ELSE n

\* RegisterOffsetOperandType::apply
Apply(operand, final_value, i) ==
    CASE operand = "None" -> i
      [] operand = "Add" -> TypeAdd(final_value, i)
      [] operand = "Sub" -> TypeSub(final_value, i)
      [] operand = "Mul" -> TypeMul(final_value, i)
      [] operand = "Div" -> TypeDiv(final_value, i)
      [] operand = "Rem" -> TypeRem(final_value, i)

\* a get_source that joins each term with the operator written after it
RECURSIVE GetSourceFromOwn(_, _, _, _, _)
GetSourceFromOwn(m, offs, i, field, previous_operand) ==
    IF i > Len(offs) THEN [m |-> m, field |-> field]
    ELSE LET item == offs[i]
         IN IF item.offset.t \notin {"Int", "Register"}
            THEN [m |-> VmError(m, "Cannot use as offset"), field |-> field]
            ELSE LET val == IF item.offset.t = "Int" THEN item.offset
                            ELSE m.registers[item.offset.r]
                     nf == Apply(item.operand, field, val)
                 IN IF nf.t = "panic" THEN [m |-> Panic(m), field |-> field]
                    ELSE GetSourceFromOwn(m, offs, i + 1, nf, item.operand)

\* Vm::get_source: the offset of a register-with-offsets, folded from the left
RECURSIVE GetSourceFrom(_, _, _, _, _)
GetSourceFrom(m, offs, i, field, previous_operand) ==
    IF i > Len(offs) THEN [m |-> m, field |-> field]
    ELSE LET item == offs[i]
         IN IF item.offset.t \notin {"Int", "Register"}
            THEN [m |-> VmError(m, "Cannot use as offset"), field |-> field]
            ELSE LET val == IF item.offset.t = "Int" THEN item.offset
                            ELSE m.registers[item.offset.r]
                     nf == Apply(previous_operand, field, val)
                 IN IF nf.t = "panic" THEN [m |-> Panic(m), field |-> field]
                    ELSE GetSourceFrom(m, offs, i + 1, nf, item.operand)
GetSource(m, source) == GetSourceFrom(m, source.offsets, 1, FieldDefault, "None")

InHeapMem(a, n) == a >= 0 /\ a + n <= MAX_HEAP_SIZE

\* Vm::get_source_data: the byte at the offset in a pointer's block, or the
\* character at the offset in a string; b is the value an open byte reads as
GetSourceData(m, source, b) ==
    LET g == GetSource(m, source)
        register_for_data == m.registers[source.r]
        u == ToU(g.field)
    IN IF g.m.status # "running" THEN g
       ELSE IF register_for_data.t = "Pointer"
       THEN IF ~u.ok THEN [m |-> VmError(m, "Value is not a number!"), field |-> g.field]
            ELSE LET a == register_for_data.n + AsI64(u.u)
                 IN IF ~InHeapMem(a, 1) THEN [m |-> Undefined(m), field |-> g.field]
                    ELSE [m |-> m,
                          field |-> TypeByte(IF m.mem[a] = Opaque THEN b ELSE m.mem[a])]
       ELSE IF register_for_data.t = "String"
       THEN IF ~u.ok THEN [m |-> VmError(m, "Value is not a number!"), field |-> g.field]
            ELSE IF u.u + 1 > Len(register_for_data.s)
                 THEN [m |-> Panic(m), field |-> g.field]
                 ELSE [m |-> m, field |-> TypeString(<<register_for_data.s[u.u + 1]>>)]
       ELSE [m |-> VmError(m, "Cannot use as offset"), field |-> g.field]

\* Vm::set_dest_data: the bytes of data copied to the offset in a pointer's
\* block, all of them, or spliced into a string at the offset (value is the
\* source's data)
SetDestData(m, dest, value) ==
    LET g == GetSource(m, dest)
        register_for_data == m.registers[dest.r]
        u == ToU(g.field)
    IN IF g.m.status # "running" THEN g.m
       ELSE IF register_for_data.t = "Pointer"
       THEN IF ~u.ok THEN VmError(m, "Value is not a number!")
            ELSE LET a == register_for_data.n + AsI64(u.u)
                     bytes == ToB(value)
                     n == Len(bytes.bytes)
                 IN IF ~bytes.ok THEN VmError(m, "Value is not a pointer!")
                    ELSE IF n = 0 THEN m
                    ELSE IF ~InHeapMem(a, n) THEN Undefined(m)
                    ELSE [m EXCEPT !.mem = WriteCells(m.mem, a, bytes.bytes),
                                   !.corrupt = m.corrupt
                                       \/ (a .. (a + n - 1)) \cap HeaderCells(m.holes) # {}]
       ELSE IF register_for_data.t = "String"
       THEN IF ~u.ok THEN VmError(m, "Value is not a number!")
            ELSE LET s == register_for_data.s
                     offset == u.u
                     new_string == Display(value, m.mem)
                 IN IF Len(s) < offset + Len(new_string)
                    THEN IF offset > Len(s) THEN Panic(m)
                         ELSE RegistersSet(m, dest.r,
                                  TypeString(SubSeq(s, offset + 1, Len(s)) \o new_string))
                    ELSE RegistersSet(m, dest.r,
                             TypeString(SubSeq(s, 1, offset) \o new_string
                                        \o SubSeq(s, offset + Len(new_string) + 1, Len(s))))
       ELSE VmError(m, "Cannot use as offset")

\* Vm::pop_operand takes the last operand of the list first
LastOperand(ops) == ops[Len(ops)]
ButLast(ops) == SubSeq(ops, 1, Len(ops) - 1)

EmptyOperands == "Cannot pop empty operand stack."

\* OpCode::Move
OpMove(m, ins, b) ==
    LET ops == ins.operand IN
    IF Len(ops) < 2 THEN VmError(m, EmptyOperands)
    ELSE LET source == LastOperand(ops)
             register == LastOperand(ButLast(ops))
             to_reg == register.t = "Register"
         IN IF ~to_reg /\ register.t # "RegisterWithOffsets"
            THEN VmError(m, "Value is not a register with offset!")
            ELSE LET Store(n, f) == IF to_reg THEN RegistersSet(n, register.r, f)
                                    ELSE SetDestData(n, register, f)
                     Done(n) == IF n.status = "running" THEN EndOfStep(n) ELSE n
                 IN CASE source.t = "String" ->
                            IF source.s \in DOMAIN m.data
                            THEN Done(Store(m, UnderlyingDataClone(m.data[source.s])))
                            ELSE IF Len(source.s) = 1
                            THEN Done(Store(m, TypeChar(source.s[1])))
                            ELSE VmError(m, "Cannot find symbol")
                      [] source.t = "Register" ->
                            Done(Store(m, UnderlyingDataClone(m.registers[source.r])))
                      [] source.t = "RegisterWithOffsets" ->
                            LET g == GetSourceData(m, source, b)
                            IN IF g.m.status # "running" THEN g.m
                               ELSE Done(Store(m, g.field))
                      [] OTHER -> Done(Store(m, source))

\* a push that puts a register operand on the stack as the reference it is
OpPushReference(m, ins) ==
    LET ops == ins.operand IN
    IF Len(ops) < 1 THEN VmError(m, EmptyOperands)
    ELSE LET register == LastOperand(ops)
         IN CASE register.t = "Register" ->
                    EndOfStep([m EXCEPT !.stack = Append(m.stack, register)])
              [] register.t = "String" ->
                    IF register.s \in DOMAIN m.data
                    THEN EndOfStep([m EXCEPT !.stack = Append(m.stack,
                                           UnderlyingDataClone(m.data[register.s]))])
                    ELSE EndOfStep(m)
              [] OTHER -> VmError(m, "Cannot push datatype")
\* OpCode::Push; a symbol the data table does not hold pushes nothing
OpPush(m, ins) ==
    LET ops == ins.operand IN
    IF Len(ops) < 1 THEN VmError(m, EmptyOperands)
    ELSE LET register == LastOperand(ops)
         IN CASE register.t = "Register" ->
                    EndOfStep([m EXCEPT !.stack = Append(m.stack,
                                  UnderlyingDataClone(m.registers[register.r]))])
              [] register.t = "String" ->
                    IF register.s \in DOMAIN m.data
                    THEN EndOfStep([m EXCEPT !.stack = Append(m.stack,
                                           UnderlyingDataClone(m.data[register.s]))])
                    ELSE EndOfStep(m)
              [] OTHER -> VmError(m, "Cannot push datatype")

\* a pop that copies the top of the stack and leaves it there
OpPopPeeking(m, ins) ==
    LET ops == ins.operand IN
    IF Len(ops) < 1 THEN VmError(m, EmptyOperands)
    ELSE LET register == LastOperand(ops)
         IN IF register.t # "Register" THEN VmError(m, "Value is not a register!")
            ELSE IF m.stack = <<>> THEN VmError(m, "Cannot pop empty stack.")
            ELSE EndOfStep(RegistersSet(m, register.r, LastOperand(m.stack)))
\* OpCode::Pop
OpPop(m, ins) ==
    LET ops == ins.operand IN
    IF Len(ops) < 1 THEN VmError(m, EmptyOperands)
    ELSE LET register == LastOperand(ops)
         IN IF register.t # "Register" THEN VmError(m, "Value is not a register!")
            ELSE IF m.stack = <<>> THEN VmError(m, "Cannot pop empty stack.")
            ELSE EndOfStep(RegistersSet([m EXCEPT !.stack = ButLast(m.stack)],
                                        register.r, LastOperand(m.stack)))

\* Vm::add, sub, mul, div, rem and xor: F is the operator of Type
Arithmetic(m, ins, F(_, _)) ==
    LET ops == ins.operand IN
    IF Len(ops) < 2 THEN VmError(m, EmptyOperands)
    ELSE LET register2 == LastOperand(ops)
             register1 == LastOperand(ButLast(ops))
         IN IF register1.t # "Register" THEN VmError(m, "Value is not a register!")
            ELSE LET data2 == IF register2.t = "Register" THEN m.registers[register2.r]
                              ELSE register2
                     result == F(m.registers[register1.r], data2)
                 IN IF result.t = "panic" THEN Panic(m)
                    ELSE EndOfStep(RegistersSet(m, register1.r, result))

OpAdd(m, ins) == Arithmetic(m, ins, TypeAdd)
OpSub(m, ins) == Arithmetic(m, ins, TypeSub)
OpMul(m, ins) == Arithmetic(m, ins, TypeMul)
OpDiv(m, ins) == Arithmetic(m, ins, TypeDiv)
OpMod(m, ins) == Arithmetic(m, ins, TypeRem)
OpXor(m, ins) == Arithmetic(m, ins, TypeBitXor)

\* a comparison whose greater_than is "not less"
TestFlagsInclusive(i1, i2) ==
    [equals |-> TypeEq(i1, i2),
     less_than |-> TypePartialCmp(i1, i2) = "Less",
     greater_than |-> TypePartialCmp(i1, i2) \in {"Equal", "Greater"}]
\* reset_flags, then i1 == i2, i1 < i2 and i1 > i2
TestFlags(i1, i2) ==
    [equals |-> TypeEq(i1, i2),
     less_than |-> TypePartialCmp(i1, i2) = "Less",
     greater_than |-> TypePartialCmp(i1, i2) = "Greater"]

\* Vm::test: the flags of comparing the first operand's register with the
\* second operand, a register's value or the operand itself
Test(m, ins) ==
    LET ops == ins.operand IN
    IF Len(ops) < 2 THEN VmError(m, EmptyOperands)
    ELSE LET register2 == LastOperand(ops)
             register1 == LastOperand(ButLast(ops))
         IN IF register1.t # "Register" THEN VmError(m, "Value is not a register!")
            ELSE LET i1 == m.registers[register1.r]
                     i2 == IF register2.t = "Register" THEN m.registers[register2.r]
                           ELSE register2
                 IN [m EXCEPT !.flags = TestFlags(i1, i2)]

\* OpCode::Test
OpTest(m, ins) ==
    LET n == Test(m, ins) IN IF n.status = "running" THEN EndOfStep(n) ELSE n

\* an assert that leaves the flags of its comparison standing
OpAssertKeeping(m, ins) ==
    LET n == Test(m, ins)
    IN IF n.status # "running" THEN n
       ELSE IF ~n.flags.equals THEN VmError(n, "Assertion failed")
       ELSE EndOfStep(n)

\* OpCode::Assert
OpAssert(m, ins) ==
    LET n == Test(m, ins)
    IN IF n.status # "running" THEN n
       ELSE IF ~n.flags.equals THEN VmError(n, "Assertion failed")
       ELSE EndOfStep([n EXCEPT !.flags = NoFlags])

\* a jump that lands one past the label
JumpPastLabel(m, label) ==
    LET key == Display(label, m.mem)
    IN IF key \in DOMAIN m.labels THEN [m EXCEPT !.pc = m.labels[key] + 1]
       ELSE BareError(m, "Cannot find label")
\* Vm::jump_to_label
JumpToLabel(m, label) ==
    LET key == Display(label, m.mem)
    IN IF key \in DOMAIN m.labels THEN [m EXCEPT !.pc = m.labels[key]]
       ELSE BareError(m, "Cannot find label")

\* a jump that also resets the flags
JumpResettingFlags(m, ins) ==
    IF Len(ins.operand) < 1 THEN VmError(m, EmptyOperands)
    ELSE JumpToLabel([m EXCEPT !.flags = NoFlags], LastOperand(ins.operand))

\* OpCode::Jmp, and a conditional jump whose condition holds
Jump(m, ins) ==
    IF Len(ins.operand) < 1 THEN VmError(m, EmptyOperands)
    ELSE JumpToLabel(m, LastOperand(ins.operand))

OpJmp(m, ins) == Jump(m, ins)
OpJe(m, ins) == IF m.flags.equals THEN Jump(m, ins) ELSE EndOfStep(m)
OpJne(m, ins) == IF ~m.flags.equals THEN Jump(m, ins) ELSE EndOfStep(m)
\* a jl that also jumps on equals
OpJlOrEqual(m, ins) ==
    IF m.flags.less_than \/ m.flags.equals THEN Jump(m, ins) ELSE EndOfStep(m)
OpJl(m, ins) == IF m.flags.less_than THEN Jump(m, ins) ELSE EndOfStep(m)
OpJg(m, ins) == IF m.flags.greater_than THEN Jump(m, ins) ELSE EndOfStep(m)
\* a jle that jumps on less only
OpJleStrict(m, ins) == IF m.flags.less_than THEN Jump(m, ins) ELSE EndOfStep(m)
OpJle(m, ins) ==
    IF m.flags.less_than \/ m.flags.equals THEN Jump(m, ins) ELSE EndOfStep(m)
OpJge(m, ins) ==
    IF m.flags.greater_than \/ m.flags.equals THEN Jump(m, ins) ELSE EndOfStep(m)

\* BuiltIn::get_name of the built-ins of Vm::new, as bytes
PrintlnName == <<95, 95, 112, 114, 105, 110, 116, 108, 110>>  \* "__println"
PrintName == <<95, 95, 112, 114, 105, 110, 116>>  \* "__print"
ConcatName == <<95, 95, 99, 111, 110, 99, 97, 116>>  \* "__concat"
DateNowUnixName == <<95, 95, 100, 97, 116, 101, 95, 110, 111, 119, 95, 117, 110, 105, 120>>  \* "__date_now_unix"
DateNowName == <<95, 95, 100, 97, 116, 101, 95, 110, 111, 119>>  \* "__date_now"
DbgName == <<95, 95, 100, 98, 103, 95, 112, 114, 105, 110, 116>>  \* "__dbg_print"
DbgPtrName == <<95, 95, 100, 98, 103, 95, 104, 101, 97, 112>>  \* "__dbg_heap"
RandomName == <<95, 95, 114, 97, 110, 100, 111, 109>>  \* "__random"
MathFloorName == <<95, 95, 102, 108, 111, 111, 114>>  \* "__floor"
BuiltinNames == {PrintlnName, PrintName, ConcatName, DateNowUnixName, DateNowName,
                 DbgName, DbgPtrName, RandomName, MathFloorName}

TypeObject == [t |-> "Object"]

\* f64::floor, on a float counted in halves
Floor(f) == IF f.k = "fin" THEN TypeFloat(2 * (f.n \div 2)) ELSE f

\* BuiltIn::call: the value the call leaves in r0; x is what the clock or the
\* random number generator gives
BuiltinCall(m, name, x) ==
    CASE name = ConcatName ->
            TypeString(Display(m.registers["rd"], m.mem) \o Display(m.registers["re"], m.mem))
      [] name = DateNowUnixName -> TypeUInt(x)
      [] name = DateNowName -> TypeObject
      [] name = RandomName -> TypeFloat(x)
      [] name = MathFloorName ->
            IF m.registers["r0"].t = "Float" THEN Floor(m.registers["r0"])
            ELSE m.registers["r0"]
      [] OTHER -> FieldDefault

\* a call that pushes its own index
ReturnAddressSame(p) == p
\* self.call_stack.push(self.pc + 1)
ReturnAddress(p) == p + 1

\* a call that looks for a built-in before it looks for a label
OpCallBuiltinFirst(m, ins, x) ==
    IF Len(ins.operand) < 1 THEN VmError(m, EmptyOperands)
    ELSE LET label == LastOperand(ins.operand)
             key == Display(label, m.mem)
         IN IF key \in BuiltinNames
            THEN EndOfStep(RegistersSet(m, "r0", BuiltinCall(m, key, x)))
            ELSE IF key \in DOMAIN m.labels
            THEN JumpToLabel([m EXCEPT !.call_stack = Append(m.call_stack,
                                                             ReturnAddress(m.pc))], label)
            ELSE VmError(m, "Cannot find label")
\* a call that pushes a return address for a built-in too
OpCallPushing(m, ins, x) ==
    IF Len(ins.operand) < 1 THEN VmError(m, EmptyOperands)
    ELSE LET label == LastOperand(ins.operand)
             key == Display(label, m.mem)
             n == [m EXCEPT !.call_stack = Append(m.call_stack, ReturnAddress(m.pc))]
         IN IF key \in DOMAIN m.labels THEN JumpToLabel(n, label)
            ELSE IF key \in BuiltinNames
            THEN EndOfStep(RegistersSet(n, "r0", BuiltinCall(m, key, x)))
            ELSE VmError(m, "Cannot find label")
\* OpCode::Call
OpCall(m, ins, x) ==
    IF Len(ins.operand) < 1 THEN VmError(m, EmptyOperands)
    ELSE LET label == LastOperand(ins.operand)
             key == Display(label, m.mem)
         IN IF key \in DOMAIN m.labels
            THEN JumpToLabel([m EXCEPT !.call_stack = Append(m.call_stack,
                                                             ReturnAddress(m.pc))], label)
            ELSE IF key \in BuiltinNames
            THEN EndOfStep(RegistersSet(m, "r0", BuiltinCall(m, key, x)))
            ELSE VmError(m, "Cannot find label")

\* a ret that reads the top of the call stack and leaves it there
OpRetKeeping(m) ==
    IF m.call_stack = <<>> THEN VmError(m, "Cannot pop empty call stack.")
    ELSE [m EXCEPT !.pc = LastOperand(m.call_stack)]
\* OpCode::Ret
OpRet(m) ==
    IF m.call_stack = <<>> THEN VmError(m, "Cannot pop empty call stack.")
    ELSE [m EXCEPT !.pc = LastOperand(m.call_stack),
                   !.call_stack = ButLast(m.call_stack)]

\* a dup that pushes the default field
OpDupDefault(m) ==
    IF m.stack = <<>> THEN VmError(m, "Cannot pop empty stack.")
    ELSE EndOfStep([m EXCEPT !.stack = Append(m.stack, FieldDefault)])
\* OpCode::Dup
OpDup(m) ==
    IF m.stack = <<>> THEN VmError(m, "Cannot pop empty stack.")
    ELSE EndOfStep([m EXCEPT !.stack = Append(m.stack, LastOperand(m.stack))])

\* OpCode::Input: line is the trimmed line read from standard input
OpInput(m, line) == EndOfStep([m EXCEPT !.stack = Append(m.stack, TypeString(line))])

\* an allocate_heap whose pointer records the size the allocator reserved
AllocateHeapRounded(m, size) ==
    IF m.corrupt THEN [m |-> Undefined(m), field |-> FieldDefault]
    ELSE LET a == HeapAllocate([holes |-> m.holes, mem |-> m.mem], size)
         IN IF ~a.ok THEN [m |-> VmError(m, "Cannot allocate heap"), field |-> FieldDefault]
            ELSE [m |-> [m EXCEPT !.holes = a.holes, !.mem = a.mem,
                                  !.allocs = m.allocs \cup
                                      {[addr |-> a.addr, size |-> size, vm |-> m.id]}],
                  field |-> TypePointer(a.addr, AlignedSize(size))]

\* Vm::allocate_heap
AllocateHeap(m, size) ==
    IF m.corrupt THEN [m |-> Undefined(m), field |-> FieldDefault]
    ELSE LET a == HeapAllocate([holes |-> m.holes, mem |-> m.mem], size)
         IN IF ~a.ok THEN [m |-> VmError(m, "Cannot allocate heap"), field |-> FieldDefault]
            ELSE [m |-> [m EXCEPT !.holes = a.holes, !.mem = a.mem,
                                  !.allocs = m.allocs \cup
                                      {[addr |-> a.addr, size |-> size, vm |-> m.id]}],
                  field |-> TypePointer(a.addr, size)]

\* the allocation_size of OpCode::Alloc: [ok, u, message]
AllocationSize(m, to_alloc) ==
    LET number(f) == [ok |-> ToU(f).ok, u |-> ToU(f).u, message |-> "Value is not a number!"]
    IN CASE to_alloc.t = "Register" -> number(m.registers[to_alloc.r])
         [] to_alloc.t \in {"UInt", "Int"} -> number(to_alloc)
         [] to_alloc.t = "String" ->
               IF to_alloc.s \in DOMAIN m.data THEN number(m.data[to_alloc.s])
               ELSE [ok |-> FALSE, u |-> 0, message |-> "Cannot parse as size for allocation!"]
         [] OTHER -> [ok |-> FALSE, u |-> 0, message |-> "Cannot use for allocation!"]

\* OpCode::Alloc
OpAlloc(m, ins) ==
    LET ops == ins.operand IN
    IF Len(ops) < 1 THEN VmError(m, EmptyOperands)
    ELSE LET to_alloc == LastOperand(ops)
             size == AllocationSize(m, to_alloc)
         IN IF ~size.ok THEN VmError(m, size.message)
            ELSE IF Len(ops) < 2 THEN VmError(m, EmptyOperands)
            ELSE LET register == LastOperand(ButLast(ops))
                 IN IF register.t # "Register" THEN VmError(m, "Value is not a register!")
                    ELSE LET a == AllocateHeap(m, size.u)
                         IN IF a.m.status # "running" THEN a.m
                            ELSE EndOfStep(RegistersSet(a.m, register.r, a.field))

\* Vm::free_heap: the block at the pointer's address goes back to the
\* allocator, whatever the allocator holds there. allocs, which the code does
\* not keep, loses the allocation the pointer was made for: a stale pointer
\* to a block since handed out again, with another size or to another VM,
\* frees that block and leaves its allocation among those nobody freed
FreeHeap(m, p) ==
    IF m.corrupt THEN Undefined(m)
    ELSE LET d == HeapDeallocate([holes |-> m.holes, mem |-> m.mem], p.n, p.size)
             n == [m EXCEPT !.holes = d.holes, !.mem = d.mem]
         IN IF d.panic THEN Panic(n)
            ELSE IF ~d.ok THEN VmError(m, "Cannot free heap")
            ELSE [n EXCEPT !.allocs = {x \in m.allocs :
                                          ~(x.addr = p.n /\ x.size = p.size
                                            /\ x.vm = m.id)}]

\* OpCode::Free
OpFree(m, ins) ==
    LET ops == ins.operand IN
    IF Len(ops) < 1 THEN VmError(m, EmptyOperands)
    ELSE LET register == LastOperand(ops)
         IN IF register.t # "Register" THEN VmError(m, "Value is not a register!")
            ELSE LET field == m.registers[register.r]
                 IN IF field.t # "Pointer" THEN VmError(m, "Value is not a pointer!")
                    ELSE LET n == FreeHeap(m, field)
                         IN IF n.status # "running" THEN n ELSE EndOfStep(n)

\* OpCode::Load, OpCode::Store and OpCode::Nop
OpNop(m) == EndOfStep(m)
\* OpCode::Hlt
OpHlt(m) == [m EXCEPT !.status = "ok"]
\* OpCode::Igl
OpIgl(m) == VmError(m, "ILLEGAL instruction encountered")

-----------------------------------------------------------------------------
(* The state machine. *)

\* a dispatch that pops the operands of the stored instruction, not of a clone
CommitConsuming(v, n) ==
    /\ registers' = [registers EXCEPT ![v] = n.registers]
    /\ flags' = [flags EXCEPT ![v] = n.flags]
    /\ slots' = [slots EXCEPT ![v] = n.slots]
    /\ stack' = [stack EXCEPT ![v] = n.stack]
    /\ call_stack' = [call_stack EXCEPT ![v] = n.call_stack]
    /\ pc' = [pc EXCEPT ![v] = n.pc]
    /\ status' = [status EXCEPT ![v] = n.status]
    /\ err' = [err EXCEPT ![v] = n.err]
    /\ heap_mem' = n.mem
    /\ holes' = n.holes
    /\ heap_corrupt' = n.corrupt
    /\ allocs' = n.allocs
    /\ last' = [vm |-> v, ins |-> instructions[v][pc[v] + 1], pre |-> M(v)]
    /\ instructions' = [instructions EXCEPT ![v][pc[v] + 1].operand = <<>>]
    /\ UNCHANGED <<runs, vms, labels, data, reflection>>

\* the state of VM v and of the heap become those of n; last keeps the
\* instruction and the state it was dispatched in. The handlers pop from a
\* clone of the operand list, so the stored instructions stay as they are
Commit(v, n) ==
    /\ registers' = [registers EXCEPT ![v] = n.registers]
    /\ flags' = [flags EXCEPT ![v] = n.flags]
    /\ slots' = [slots EXCEPT ![v] = n.slots]
    /\ stack' = [stack EXCEPT ![v] = n.stack]
    /\ call_stack' = [call_stack EXCEPT ![v] = n.call_stack]
    /\ pc' = [pc EXCEPT ![v] = n.pc]
    /\ status' = [status EXCEPT ![v] = n.status]
    /\ err' = [err EXCEPT ![v] = n.err]
    /\ heap_mem' = n.mem
    /\ holes' = n.holes
    /\ heap_corrupt' = n.corrupt
    /\ allocs' = n.allocs
    /\ last' = [vm |-> v, ins |-> instructions[v][pc[v] + 1], pre |-> M(v)]
    /\ UNCHANGED <<runs, vms, instructions, labels, data, reflection>>

\* the instruction the loop clones at pc
Fetch(v) == instructions[v][pc[v] + 1]

\* while self.pc < self.instructions.len(), and the arm of the match
Dispatch(v, op) ==
    /\ status[v] = "running"
    /\ pc[v] < Len(instructions[v])
    /\ Fetch(v).opcode = op

\* what a byte the allocator wrote, or a byte of a float, can read as
OpenBytes(ins) ==
    IF ins.operand # <<>> /\ LastOperand(ins.operand).t = "RegisterWithOffsets"
    THEN 0 .. (Pow2(ByteBits) - 1) ELSE {0}

\* what the clock and the random number generator can give a built-in
HostValues == {0, 1}
\* the lines standard input can hold
InputLines == {<<>>, <<52, 50>>}

ExecMove(v) == Dispatch(v, "Move") /\ \E b \in OpenBytes(Fetch(v)) : Commit(v, OpMove(M(v), Fetch(v), b))
ExecPush(v) == Dispatch(v, "Push") /\ Len(stack[v]) < MaxStack /\ Commit(v, OpPush(M(v), Fetch(v)))
ExecPop(v) == Dispatch(v, "Pop") /\ Commit(v, OpPop(M(v), Fetch(v)))
ExecAdd(v) == Dispatch(v, "Add") /\ Commit(v, OpAdd(M(v), Fetch(v)))
ExecMul(v) == Dispatch(v, "Mul") /\ Commit(v, OpMul(M(v), Fetch(v)))
ExecSub(v) == Dispatch(v, "Sub") /\ Commit(v, OpSub(M(v), Fetch(v)))
ExecDiv(v) == Dispatch(v, "Div") /\ Commit(v, OpDiv(M(v), Fetch(v)))
ExecMod(v) == Dispatch(v, "Mod") /\ Commit(v, OpMod(M(v), Fetch(v)))
ExecInput(v) == Dispatch(v, "Input") /\ Len(stack[v]) < MaxStack /\ \E line \in InputLines : Commit(v, OpInput(M(v), line))
ExecCall(v) == Dispatch(v, "Call") /\ Len(call_stack[v]) < MaxCallDepth /\ \E x \in HostValues : Commit(v, OpCall(M(v), Fetch(v), x))
ExecRet(v) == Dispatch(v, "Ret") /\ Commit(v, OpRet(M(v)))
ExecTest(v) == Dispatch(v, "Test") /\ Commit(v, OpTest(M(v), Fetch(v)))
ExecJmp(v) == Dispatch(v, "Jmp") /\ Commit(v, OpJmp(M(v), Fetch(v)))
ExecJe(v) == Dispatch(v, "Je") /\ Commit(v, OpJe(M(v), Fetch(v)))
ExecJne(v) == Dispatch(v, "Jne") /\ Commit(v, OpJne(M(v), Fetch(v)))
ExecJl(v) == Dispatch(v, "Jl") /\ Commit(v, OpJl(M(v), Fetch(v)))
ExecJg(v) == Dispatch(v, "Jg") /\ Commit(v, OpJg(M(v), Fetch(v)))
ExecJle(v) == Dispatch(v, "Jle") /\ Commit(v, OpJle(M(v), Fetch(v)))
ExecJge(v) == Dispatch(v, "Jge") /\ Commit(v, OpJge(M(v), Fetch(v)))
ExecXor(v) == Dispatch(v, "Xor") /\ Commit(v, OpXor(M(v), Fetch(v)))
ExecDup(v) == Dispatch(v, "Dup") /\ Len(stack[v]) < MaxStack /\ Commit(v, OpDup(M(v)))
ExecAlloc(v) == Dispatch(v, "Alloc") /\ Commit(v, OpAlloc(M(v), Fetch(v)))
ExecFree(v) == Dispatch(v, "Free") /\ Commit(v, OpFree(M(v), Fetch(v)))
ExecLoad(v) == Dispatch(v, "Load") /\ Commit(v, OpNop(M(v)))
ExecStore(v) == Dispatch(v, "Store") /\ Commit(v, OpNop(M(v)))
ExecNop(v) == Dispatch(v, "Nop") /\ Commit(v, OpNop(M(v)))
ExecHlt(v) == Dispatch(v, "Hlt") /\ Commit(v, OpHlt(M(v)))
ExecIgl(v) == Dispatch(v, "Igl") /\ Commit(v, OpIgl(M(v)))
ExecAssert(v) == Dispatch(v, "Assert") /\ Commit(v, OpAssert(M(v), Fetch(v)))

\* the loop ends: Ok(())
ExecuteReturn(v) ==
    /\ status[v] = "running"
    /\ pc[v] >= Len(instructions[v])
    /\ status' = [status EXCEPT ![v] = "ok"]
    /\ last' = [vm |-> v, ins |-> Instruction("Return", <<>>), pre |-> M(v)]
    /\ UNCHANGED <<runs, vms, instructions, labels, data, registers, flags, slots, stack,
                   call_stack, pc, reflection, err, heap_mem, holes, heap_corrupt, allocs>>

\* Heap::reset: HEAP_ALLOCATED is never set, so HEAP_MEM keeps its bytes; the
\* allocator is not touched
HeapReset(h) == h

\* the heap mutex is poisoned: a thread panicked inside the allocator, holding it
Poisoned ==
    \E w \in vms : /\ status[w] = "panic" /\ pc[w] < Len(instructions[w])
                   /\ instructions[w][pc[w] + 1].opcode = "Free"

\* a reset that also rewinds the program counter
VmResetRewinding(m, poisoned) ==
    IF poisoned THEN Panic(m)
    ELSE [m EXCEPT !.stack = <<>>, !.call_stack = <<>>, !.pc = 0]

\* Vm::reset: lock().unwrap() panics on a poisoned mutex; the two stacks are
\* popped empty; pc, the registers and the flags are not assigned
VmReset(m, poisoned) ==
    IF poisoned THEN Panic(m)
    ELSE LET h == HeapReset([holes |-> m.holes, mem |-> m.mem])
         IN [m EXCEPT !.holes = h.holes, !.mem = h.mem,
                      !.stack = <<>>, !.call_stack = <<>>]

\* reset() on a VM whose execute has returned
Reset(v) ==
    /\ status[v] \in {"ok", "error"}
    /\ LET n == VmReset(M(v), Poisoned)
       IN /\ stack' = [stack EXCEPT ![v] = n.stack]
          /\ call_stack' = [call_stack EXCEPT ![v] = n.call_stack]
          /\ pc' = [pc EXCEPT ![v] = n.pc]
          /\ status' = [status EXCEPT ![v] = n.status]
          /\ heap_mem' = n.mem
          /\ holes' = n.holes
    /\ last' = [vm |-> v, ins |-> Instruction("Reset", <<>>), pre |-> M(v)]
    /\ UNCHANGED <<runs, vms, instructions, labels, data, registers, flags, slots, reflection,
                   err, heap_corrupt, allocs>>

\* the VM goes out of scope after execute has returned. Vm has no Drop of its
\* own: its fields are dropped, the heap field being one more Arc of the
\* static HEAP_INSTANCE, whose allocator no drop reaches
Drop(v) ==
    /\ status[v] \in {"ok", "error"}
    /\ status' = [status EXCEPT ![v] = "dropped"]
    /\ last' = [vm |-> v, ins |-> Instruction("Drop", <<>>), pre |-> M(v)]
    /\ UNCHANGED <<runs, vms, instructions, labels, data, registers, flags, slots, stack,
                   call_stack, pc, reflection, err, heap_mem, holes, heap_corrupt, allocs>>

-----------------------------------------------------------------------------
(* The programs execute is given: the programs of the repository's tests    *)
(* and of the scenarios, and small families around them. An operand list is *)
(* in source order, destination first.                                      *)

Prog(ins, lab, dat) == [instructions |-> ins, labels |-> lab, data |-> dat]
NoLabels == [k \in {} |-> 0]
NoData == [k \in {} |-> FieldDefault]

R(r) == TypeRegister(r)
Sym(str) == TypeString(str)
\* r[k] and r[j-k]
Idx(r, k) == TypeRegisterWithOffsets(r, <<RegisterOffset(TypeInt(k), "None")>>)
IdxSub(r, j, k) ==
    TypeRegisterWithOffsets(r, <<RegisterOffset(TypeInt(j), "Sub"),
                                 RegisterOffset(TypeInt(k), "None")>>)

AtF == <<64, 102>>  \* "@f"
AtG == <<64, 103>>  \* "@g"
AtE == <<64, 101>>  \* "@e"
AtS == <<64, 115>>  \* "@s"
AtH == <<64, 104>>  \* "@h"
CharX == TypeChar(120)
CharY == TypeChar(121)

Mov(d, x) == Instruction("Move", <<d, x>>)
Op0(op) == Instruction(op, <<>>)
Op1(op, a) == Instruction(op, <<a>>)
Op2(op, a, c) == Instruction(op, <<a, c>>)

\* test_ret of vm.rs
TestRet ==
    Prog(<<Mov(R("ra"), TypeInt(4)), Op1("Call", Sym(AtF)), Op1("Jmp", Sym(AtE)),
           Mov(R("rb"), TypeInt(9)), Op0("Ret"), Mov(R("rc"), TypeInt(8))>>,
         (AtF :> 3) @@ (AtE :> 5), NoData)
\* a call inside a call
NestedCall ==
    Prog(<<Op1("Call", Sym(AtF)), Op0("Hlt"), Op1("Call", Sym(AtG)), Op0("Ret"),
           Mov(R("ra"), TypeInt(1)), Op0("Ret")>>,
         (AtF :> 2) @@ (AtG :> 4), NoData)
\* a function that calls itself, a ret with no call, a call of nothing
Recursion == Prog(<<Op1("Call", Sym(AtF))>>, (AtF :> 0), NoData)
LoneRet == Prog(<<Op0("Nop"), Op0("Ret")>>, NoLabels, NoData)
CallUnknown == Prog(<<Op1("Call", Sym(AtF)), Op0("Nop")>>, NoLabels, NoData)
Illegal == Prog(<<Op0("Nop"), Op0("Igl"), Op0("Nop")>>, NoLabels, NoData)
\* a loop that pushes for ever
PushLoop == Prog(<<Op1("Push", R("ra")), Op1("Jmp", Sym(AtF))>>, (AtF :> 0), NoData)
CallPrograms == {TestRet, NestedCall, Recursion, LoneRet, CallUnknown, Illegal, PushLoop}

\* test_je, test_jne, test_jl, test_jg, test_jle and test_jge of vm.rs, and
\* the same with the label absent: mov ra,a; mov rb,c; test ra,rb; jcc @e; mov rc,5
ConditionalJumps == {"Je", "Jne", "Jl", "Jg", "Jle", "Jge"}
CondJump(op, a, c, lab) ==
    Prog(<<Mov(R("ra"), TypeInt(a)), Mov(R("rb"), TypeInt(c)),
           Op2("Test", R("ra"), R("rb")), Op1(op, Sym(AtE)),
           Mov(R("rc"), TypeInt(5))>>, lab, NoData)
JumpPrograms ==
    {CondJump(op, ac[1], ac[2], lab) :
        op \in ConditionalJumps, ac \in {<<7, 5>>, <<13, 13>>, <<4, 13>>},
        lab \in {NoLabels, (AtE :> 5), (AtE :> 6)}}
\* test_jmp and test_label of vm.rs
TestJmp == Prog(<<Op1("Jmp", Sym(AtE)), Mov(R("ra"), TypeInt(5))>>, (AtE :> 2), NoData)
JmpUnknown == Prog(<<Op1("Jmp", Sym(AtE)), Mov(R("ra"), TypeInt(5))>>, NoLabels, NoData)

\* a test after a test: mov ra,5; test ra,5; mov ra,a; test ra,c
TestValues == {TypeInt(5), TypeInt(7), TypeUInt(5), TypeByte(5), TypeShort(7), TypeChar(53),
               TypeFloat(1), TypeFloat(10), NaN, Sym(<<53, 53>>), TypeBool(TRUE)}
TestPair(a, c) ==
    Prog(<<Mov(R("ra"), TypeInt(5)), Op2("Test", R("ra"), TypeInt(5)),
           Mov(R("ra"), a), Op2("Test", R("ra"), c)>>, NoLabels, NoData)
TestPrograms == {TestPair(a, c) : a \in TestValues \ {Sym(<<53, 53>>)}, c \in TestValues}
\* the not-a-number of 0.0 / 0.0 compared with itself
TestNaN ==
    Prog(<<Op1("Call", Sym(RandomName)), Op1("Call", Sym(MathFloorName)),
           Mov(R("ra"), R("r0")), Op2("Div", R("ra"), R("r0")),
           Op2("Test", R("ra"), R("ra"))>>, NoLabels, NoData)

\* programs on the heap: alloc r,n; free r, then a write, a read or a free
\* through the freed pointer
FreeThenWrite ==
    Prog(<<Op2("Alloc", R("ra"), TypeInt(4)), Op1("Free", R("ra")),
           Mov(Idx("ra", 0), CharX)>>, NoLabels, NoData)
FreeThenRead ==
    Prog(<<Op2("Alloc", R("ra"), TypeInt(4)), Mov(Idx("ra", 0), CharX),
           Op1("Free", R("ra")), Mov(R("rb"), Idx("ra", 0))>>, NoLabels, NoData)
FreeTwice ==
    Prog(<<Op2("Alloc", R("ra"), TypeInt(4)), Op1("Free", R("ra")),
           Op1("Free", R("ra"))>>, NoLabels, NoData)
FreeCopy ==
    Prog(<<Op2("Alloc", R("ra"), TypeInt(4)), Op2("Alloc", R("rc"), TypeInt(4)),
           Mov(R("rb"), R("ra")), Op1("Free", R("ra")), Op1("Free", R("rb"))>>,
         NoLabels, NoData)
\* the second free comes after the address was handed out again
FreeStale ==
    Prog(<<Op2("Alloc", R("ra"), TypeInt(4)), Op2("Alloc", R("rc"), TypeInt(4)),
           Op1("Free", R("ra")), Op2("Alloc", R("rb"), TypeInt(4)),
           Op1("Free", R("ra")), Mov(Idx("rb", 0), CharX)>>, NoLabels, NoData)
\* can_assign_to_pointer of main.rs
AssignToPointer ==
    Prog(<<Op2("Alloc", R("ra"), TypeInt(10)), Mov(Idx("ra", 0), CharY),
           Mov(Idx("ra", 1), TypeChar(101)), Mov(Idx("ra", 2), CharY),
           Mov(R("rd"), R("ra")), Op1("Call", Sym(PrintlnName)),
           Mov(R("rb"), Idx("ra", 1))>>, NoLabels, NoData)
\* writes and reads at the offsets of Offsets of the first of two blocks
\* of size n: alloc ra,n; alloc rb,n; mov rb[0],'x'; mov ra[k],v; mov rc,rb[0]
BlockSizes == {4, 16}
Offsets == {0, 3, 12, 16, 20, 95}
WrittenValues == {CharY, TypeByte(7), TypeInt(5), Sym(<<104, 105>>), TypeBool(TRUE)}
WriteAt(n, off, val) ==
    Prog(<<Op2("Alloc", R("ra"), TypeInt(n)), Op2("Alloc", R("rb"), TypeInt(n)),
           Mov(Idx("rb", 0), CharX), Mov(off, val), Mov(R("rc"), Idx("rb", 0))>>,
         NoLabels, NoData)
ReadAt(n, off) ==
    Prog(<<Op2("Alloc", R("ra"), TypeInt(n)), Op2("Alloc", R("rb"), TypeInt(n)),
           Mov(Idx("rb", 0), CharX), Mov(R("rc"), off)>>, NoLabels, NoData)
WritePrograms ==
    {WriteAt(n, Idx("ra", k), val) : n \in BlockSizes, k \in Offsets, val \in WrittenValues}
    \cup {WriteAt(n, IdxSub("rb", 0, 1), CharY) : n \in BlockSizes}
ReadPrograms ==
    {ReadAt(n, Idx("ra", k)) : n \in BlockSizes, k \in Offsets}
    \cup {ReadAt(n, IdxSub("rb", 0, 1)) : n \in BlockSizes}
\* a write over the allocator's list, then an allocation
OverwriteThenAlloc ==
    Prog(<<Op2("Alloc", R("ra"), TypeInt(16)), Mov(Idx("ra", 16), TypeInt(5)),
           Op2("Alloc", R("rb"), TypeInt(4))>>, NoLabels, NoData)
\* more than the arena holds
Sizes == {40, 200}
AllocTwice(n) ==
    Prog(<<Op2("Alloc", R("ra"), TypeInt(n)), Op2("Alloc", R("rb"), TypeInt(n)),
           Op1("Free", R("ra"))>>, NoLabels, NoData)
HeapPrograms ==
    {FreeThenWrite, FreeThenRead, FreeTwice, FreeCopy, FreeStale, AssignToPointer,
     OverwriteThenAlloc} \cup {AllocTwice(n) : n \in Sizes}

\* every opcode between a test and the jumps that act on it
Tour ==
    Prog(<<Mov(R("ra"), TypeInt(7)), Mov(R("rb"), TypeInt(5)),
           Op2("Test", R("ra"), R("rb")), Op1("Push", R("ra")), Op0("Dup"),
           Op1("Pop", R("rc")), Op1("Pop", R("rd")), Op2("Add", R("ra"), R("rb")),
           Op2("Sub", R("ra"), TypeInt(1)), Op2("Mul", R("ra"), TypeInt(2)),
           Op2("Div", R("ra"), TypeInt(3)), Op2("Mod", R("ra"), TypeInt(4)),
           Op2("Xor", R("ra"), R("rb")), Op0("Input"), Op1("Pop", R("re")),
           Mov(R("re"), TypeInt(0)), Op1("Call", Sym(AtF)),
           Op1("Call", Sym(DateNowUnixName)), Mov(R("r0"), TypeInt(0)),
           Op2("Alloc", R("rf"), TypeInt(4)), Mov(Idx("rf", 0), CharX),
           Mov(R("r1"), Idx("rf", 0)), Op1("Free", R("rf")),
           Op0("Load"), Op0("Store"), Op0("Nop"),
           Op1("Je", Sym(AtE)), Op1("Jl", Sym(AtE)), Op1("Jle", Sym(AtE)),
           Op1("Jne", Sym(AtS)), Op0("Igl"), Op1("Jg", Sym(AtG)), Op0("Igl"),
           Op1("Jge", Sym(AtE)), Op0("Nop"), Op0("Ret"), Op1("Jmp", Sym(AtH)),
           Op2("Assert", R("rb"), TypeInt(5)), Op0("Hlt")>>,
         (AtS :> 31) @@ (AtG :> 33) @@ (AtF :> 34) @@ (AtE :> 36) @@ (AtH :> 37), NoData)

Uhoh == <<117, 104, 111, 104>>  \* "uhoh"
UhOh == Sym(<<85, 104, 32, 79, 72, 33>>)  \* "Uh OH!"
\* test_mov of vm.rs
TestMov ==
    Prog(<<Mov(R("ra"), TypeInt(4)), Mov(R("rb"), R("ra")), Mov(R("rc"), R("rb")),
           Mov(R("rd"), Sym(Uhoh))>>, NoLabels, (Uhoh :> UhOh))
\* moves of a not-a-number, of an object and of a pointer from register to
\* register, and a move of a register onto itself
MoveKinds ==
    Prog(<<Op1("Call", Sym(RandomName)), Op1("Call", Sym(MathFloorName)),
           Mov(R("ra"), R("r0")), Op2("Div", R("ra"), R("r0")),
           Mov(R("rb"), R("ra")), Mov(R("rc"), R("rb")),
           Op1("Call", Sym(DateNowName)), Mov(R("rd"), R("r0")),
           Op2("Alloc", R("re"), TypeInt(4)), Mov(R("rf"), R("re")),
           Mov(R("rf"), R("rf"))>>, NoLabels, NoData)
MovePrograms == {TestMov, MoveKinds}

\* integer arithmetic at the edges of the word: mov ra,a; op ra,b
ArithmeticOps == {"Add", "Sub", "Mul", "Div", "Mod"}
IntValues == {MinInt, -7, 7, MaxInt}
IntOperands == {-1, 0, 2}
IntArithmetic(op, a, b) ==
    Prog(<<Mov(R("ra"), TypeInt(a)), Op2(op, R("ra"), TypeInt(b))>>, NoLabels, NoData)
ArithmeticPrograms ==
    {IntArithmetic(op, a, b) : op \in ArithmeticOps, a \in IntValues, b \in IntOperands}

\* the counter to three: mov ra,0; L: add ra,1; test ra,_n; jl L
LabelL == <<76>>  \* "L"
UnderN == <<95, 110>>  \* "_n"
Counter ==
    Prog(<<Mov(R("ra"), TypeInt(0)), Op2("Add", R("ra"), TypeInt(1)),
           Op2("Test", R("ra"), Sym(UnderN)), Op1("Jl", Sym(LabelL))>>,
         (LabelL :> 1), (UnderN :> TypeInt(3)))

\* instructions that fail, each after mov ra,4; push ra; pop rb; alloc rd,8
\* and before mov rc,5
NoSym == <<110, 111>>  \* "no"
Prelude ==
    <<Mov(R("ra"), TypeInt(4)), Op1("Push", R("ra")), Op1("Pop", R("rb")),
      Op2("Alloc", R("rd"), TypeInt(8))>>
Faults ==
    {Op1("Pop", R("rb")), Op0("Dup"), Op0("Ret"), Op1("Jmp", Sym(NoSym)),
     Op1("Call", Sym(NoSym)), Mov(R("rc"), Sym(NoSym)), Op2("Alloc", R("rc"), TypeInt(200)),
     Op1("Free", R("ra")), Op2("Add", TypeInt(5), R("ra"))}
Faulting(ins) == Prog(Prelude \o <<ins, Mov(R("rc"), TypeInt(5))>>, NoLabels, NoData)
FaultPrograms == {Faulting(ins) : ins \in Faults}

\* an illegal instruction with five instructions on either side
LongIllegal ==
    Prog(<<Op0("Nop"), Op0("Nop"), Op0("Nop"), Op0("Nop"), Op0("Nop"), Op0("Igl"),
           Op0("Nop"), Op0("Nop"), Op0("Nop"), Op0("Nop"), Op0("Nop")>>, NoLabels, NoData)

\* test_push and test_pop of vm.rs
TestPush == Prog(<<Mov(R("ra"), TypeInt(4)), Op1("Push", R("ra"))>>, NoLabels, NoData)
TestPop ==
    Prog(<<Mov(R("ra"), TypeInt(4)), Op1("Push", R("ra")), Op1("Pop", R("rb"))>>,
         NoLabels, NoData)
\* a push of each kind of operand, on a stack of one element, with data uhoh
PushOperands == {R("ra"), Sym(Uhoh), Sym(NoSym), TypeInt(5), CharX, Idx("ra", 0)}
PushOf(x) ==
    Prog(<<Mov(R("ra"), TypeInt(4)), Op1("Push", R("ra")), Op1("Push", x)>>,
         NoLabels, (Uhoh :> UhOh))
\* push ra; pop rb on a stack that holds an element, and a pop on an empty stack
PushPop ==
    Prog(<<Mov(R("ra"), TypeInt(4)), Mov(R("rc"), TypeInt(9)), Op1("Push", R("rc")),
           Op1("Push", R("ra")), Op1("Pop", R("rb"))>>, NoLabels, NoData)
PopEmpty == Prog(<<Mov(R("rb"), TypeInt(4)), Op1("Pop", R("rb"))>>, NoLabels, NoData)
PushPrograms == {TestPush, TestPop, PushPop, PopEmpty} \cup {PushOf(x) : x \in PushOperands}

\* test_dup of vm.rs, and a dup over an element that must stay
TestDup ==
    Prog(<<Mov(R("ra"), TypeInt(4)), Op1("Push", R("ra")), Op0("Dup")>>, NoLabels, NoData)
DupOver ==
    Prog(<<Mov(R("ra"), TypeInt(4)), Mov(R("rb"), CharX), Op1("Push", R("rb")),
           Op1("Push", R("ra")), Op0("Dup")>>, NoLabels, NoData)

\* built-ins called inside a function: call @f; hlt; f: mov rd,'x';
\* mov re,'y'; call __concat; call __println; call __random; ret
BuiltinInside ==
    Prog(<<Op1("Call", Sym(AtF)), Op0("Hlt"), Mov(R("rd"), CharX), Mov(R("re"), CharY),
           Op1("Call", Sym(ConcatName)), Op1("Call", Sym(PrintlnName)),
           Op1("Call", Sym(RandomName)), Op0("Ret")>>, (AtF :> 2), NoData)

\* a label named as a built-in, and a symbol that is a label and a data key:
\* call __random; mov ra,uhoh; hlt; push uhoh; ret
Shadow ==
    Prog(<<Op1("Call", Sym(RandomName)), Mov(R("ra"), Sym(Uhoh)), Op0("Hlt"),
           Op1("Push", Sym(Uhoh)), Op0("Ret")>>,
         (RandomName :> 3) @@ (Uhoh :> 3), (Uhoh :> UhOh) @@ (RandomName :> TypeInt(7)))
\* a call of a symbol that is a data key and nothing else
CallData == Prog(<<Op0("Nop"), Op1("Call", Sym(Uhoh))>>, NoLabels, (Uhoh :> UhOh))

\* arithmetic and xor on kinds the operators of Type have no arm for:
\* mov ra,5; op ra,"hi" -- alloc rb,4; mov ra,5; op ra,rb -- mov ra,1.5; xor ra,2.5
Hi == <<104, 105>>
MixedString(op) ==
    Prog(<<Mov(R("ra"), TypeInt(5)), Op2(op, R("ra"), TypeString(Hi))>>, NoLabels, NoData)
MixedPointer(op) ==
    Prog(<<Op2("Alloc", R("rb"), TypeInt(4)), Mov(R("ra"), TypeInt(5)),
           Op2(op, R("ra"), R("rb"))>>, NoLabels, NoData)
XorFloat ==
    Prog(<<Mov(R("ra"), TypeFloat(3)), Op2("Xor", R("ra"), TypeFloat(5))>>, NoLabels, NoData)
MixedPrograms ==
    {MixedString(op) : op \in ArithmeticOps \cup {"Xor"}}
    \cup {MixedPointer(op) : op \in {"Add", "Xor"}} \cup {XorFloat}

\* an assert after a test that set a flag:
\* mov ra,7; mov rb,x; test ra,5; assert ra,y; hlt   (y a literal or rb)
AssertAfterTest(x, y) ==
    Prog(<<Mov(R("ra"), TypeInt(7)), Mov(R("rb"), TypeInt(x)),
           Op2("Test", R("ra"), TypeInt(5)), Op2("Assert", R("ra"), y), Op0("Hlt")>>,
         NoLabels, NoData)
AssertPrograms ==
    {AssertAfterTest(x, y) : x \in {7, 9}, y \in {R("rb"), TypeInt(7), TypeInt(5), TypeString(Hi)}}

\* allocations up to and past what the arena holds:
\* mov rc,9; alloc rc,n -- alloc ra,40; alloc rb,40; mov rc,9; alloc rc,n
\* -- mov rb,n; mov rc,9; alloc rc,rb
AllocOne(n) ==
    Prog(<<Mov(R("rc"), TypeInt(9)), Op2("Alloc", R("rc"), TypeInt(n))>>, NoLabels, NoData)
AllocThird(n) ==
    Prog(<<Op2("Alloc", R("ra"), TypeInt(40)), Op2("Alloc", R("rb"), TypeInt(40)),
           Mov(R("rc"), TypeInt(9)), Op2("Alloc", R("rc"), TypeInt(n))>>, NoLabels, NoData)
AllocRegister(n) ==
    Prog(<<Mov(R("rb"), TypeInt(n)), Mov(R("rc"), TypeInt(9)),
           Op2("Alloc", R("rc"), R("rb"))>>, NoLabels, NoData)
AllocPrograms ==
    {AllocOne(n) : n \in {0, 1, ArenaSize - 8, ArenaSize, ArenaSize + 1, MAX_HEAP_SIZE, -1}}
    \cup {AllocThird(n) : n \in {0, 9, 16, 17, 40}}
    \cup {AllocRegister(n) : n \in {24, 200}}

\* offsets of several terms, as the lexer builds them: each term with the
\* operator written after it, None after the last.
\* mov ra,_s; mov rb,1; mov rc,2; mov rd,ra[...]   with _s: "abcdefgh"
Abcdefgh == <<97, 98, 99, 100, 101, 102, 103, 104>>
UnderS == <<95, 115>>  \* "_s"
Term(f, op) == RegisterOffset(f, op)
OffsetLists ==
    {<<Term(TypeInt(1), "Add"), Term(TypeInt(2), "Mul"), Term(TypeInt(2), "None")>>,
     <<Term(TypeInt(7), "Sub"), Term(TypeInt(3), "Add"), Term(TypeInt(2), "None")>>,
     <<Term(R("rb"), "Add"), Term(R("rc"), "Mul"), Term(R("rc"), "None")>>,
     <<Term(TypeInt(7), "Sub"), Term(R("rb"), "Sub"), Term(R("rc"), "None")>>,
     <<Term(TypeInt(7), "Div"), Term(R("rc"), "Mul"), Term(TypeInt(2), "None")>>,
     <<Term(TypeInt(7), "Rem"), Term(TypeInt(4), "Add"), Term(R("rb"), "None")>>,
     <<Term(R("rc"), "Mul"), Term(R("rc"), "Sub"), Term(R("rb"), "Add"),
       Term(TypeInt(2), "None")>>}
OffsetFold(offs) ==
    Prog(<<Mov(R("ra"), Sym(UnderS)), Mov(R("rb"), TypeInt(1)),
           Mov(R("rc"), TypeInt(2)), Mov(R("rd"), TypeRegisterWithOffsets("ra", offs))>>,
         NoLabels, (UnderS :> TypeString(Abcdefgh)))
OffsetPrograms == {OffsetFold(offs) : offs \in OffsetLists}

\* writes into a string at an index, inside it and past its end:
\* mov ra,_s; mov ra[k],val; mov rb,ra[0]   with _s: "abcdefgh", _t: "xy"
UnderT == <<95, 116>>  \* "_t"
Xy == <<120, 121>>
StringWrite(k, val) ==
    Prog(<<Mov(R("ra"), Sym(UnderS)), Mov(Idx("ra", k), val), Mov(R("rb"), Idx("ra", 0))>>,
         NoLabels, (UnderS :> TypeString(Abcdefgh)) @@ (UnderT :> TypeString(Xy)))
StringPrograms ==
    {StringWrite(k, val) : k \in {0, 3, 6, 7, 8}, val \in {CharX, Sym(UnderT), TypeInt(42)}}

\* a jmp inside a called function, after a test and a push:
\* mov ra,7; test ra,5; push ra; call @f; hlt; f: jmp lab; nop; e: ret
JmpInside(lab) ==
    Prog(<<Mov(R("ra"), TypeInt(7)), Op2("Test", R("ra"), TypeInt(5)), Op1("Push", R("ra")),
           Op1("Call", Sym(AtF)), Op0("Hlt"), Op1("Jmp", Sym(lab)), Op0("Nop"), Op0("Ret")>>,
         (AtF :> 5) @@ (AtE :> 7), NoData)

\* the counting loop: mov ra,0; mov rb,n; L: add ra,1; test ra,rb; jl L
MaxCount == 3
Counts == 1..MaxCount
CountTo(n) ==
    Prog(<<Mov(R("ra"), TypeInt(0)), Mov(R("rb"), TypeInt(n)),
           Op2("Add", R("ra"), TypeInt(1)), Op2("Test", R("ra"), R("rb")),
           Op1("Jl", Sym(LabelL))>>, (LabelL :> 2), NoData)
\* a subroutine called twice: call @f; call @f; hlt; f: add ra,2; ret
CallTwice ==
    Prog(<<Op1("Call", Sym(AtF)), Op1("Call", Sym(AtF)), Op0("Hlt"),
           Op2("Add", R("ra"), TypeInt(2)), Op0("Ret")>>, (AtF :> 3), NoData)

\* a stale pointer freed after its block was handed out again, then an alloc:
\* alloc ra,4; mov re,ra; free ra; alloc rb,8; free re; alloc rc,12
FreeStaleRealloc ==
    Prog(<<Op2("Alloc", R("ra"), TypeInt(4)), Mov(R("re"), R("ra")), Op1("Free", R("ra")),
           Op2("Alloc", R("rb"), TypeInt(8)), Op1("Free", R("re")),
           Op2("Alloc", R("rc"), TypeInt(12))>>, NoLabels, NoData)
\* blocks freed through a copy, and allocated again:
\* alloc ra,4; alloc rb,8; mov re,ra; free re; alloc rc,12; alloc rd,4
FreeCopyRealloc ==
    Prog(<<Op2("Alloc", R("ra"), TypeInt(4)), Op2("Alloc", R("rb"), TypeInt(8)),
           Mov(R("re"), R("ra")), Op1("Free", R("re")),
           Op2("Alloc", R("rc"), TypeInt(12)), Op2("Alloc", R("rd"), TypeInt(4))>>,
         NoLabels, NoData)

Programs ==
    CallPrograms \cup JumpPrograms \cup {TestJmp, JmpUnknown, TestNaN, Tour}
    \cup TestPrograms \cup HeapPrograms \cup WritePrograms \cup ReadPrograms
    \cup MovePrograms \cup ArithmeticPrograms \cup {Counter} \cup FaultPrograms
    \cup {LongIllegal} \cup PushPrograms \cup {TestDup, DupOver, BuiltinInside}
    \cup {Shadow, CallData}
    \cup MixedPrograms \cup AssertPrograms \cup AllocPrograms \cup OffsetPrograms
    \cup StringPrograms \cup {JmpInside(lab) : lab \in {AtE, AtH}}
    \cup {CountTo(n) : n \in Counts} \cup {CallTwice}
    \cup {FreeStaleRealloc, FreeCopyRealloc}

\* the calls of execute one VM gets
MaxRuns == 2

\* programs for a VM that has run one: one nop; marks, each instruction
\* leaving its own index in r9; returns
MarksLen == 6
Short == Prog(<<Op0("Nop")>>, NoLabels, NoData)
Marks == Prog([i \in 1..MarksLen |-> Mov(R("r9"), TypeInt(i - 1))], NoLabels, NoData)
Returns == Prog(<<Op0("Ret"), Op0("Ret"), Op0("Ret")>>, NoLabels, NoData)
Reloadable == IF Cardinality(vms) = 1 THEN {Short, Marks, Returns} ELSE {Short}

\* two blocks of different sizes: alloc ra,4; alloc rb,8
AllocPair ==
    Prog(<<Op2("Alloc", R("ra"), TypeInt(4)), Op2("Alloc", R("rb"), TypeInt(8))>>,
         NoLabels, NoData)

\* the programs two VMs run side by side
SharedPrograms == {Tour, Illegal, FreeTwice, FreeThenWrite} \cup {AllocTwice(n) : n \in Sizes}
Loadable(v) ==
    IF Cardinality(vms) = 1 THEN Programs
    ELSE IF v = 1 THEN SharedPrograms ELSE {AllocTwice(n) : n \in Sizes} \cup {AllocPair}

\* Vm::new: the state after construction, the allocator initialised over HEAP_MEM
Constructed(ids) ==
    /\ vms = ids
    /\ instructions = [v \in ids |-> <<>>]
    /\ labels = [v \in ids |-> NoLabels]
    /\ data = [v \in ids |-> NoData]
    /\ registers = [v \in ids |-> [r \in Register |-> FieldDefault]]
    /\ flags = [v \in ids |-> NoFlags]
    /\ slots = [v \in ids |-> [stack_len |-> FieldDefault, call_stack_len |-> FieldDefault,
                               pc |-> FieldDefault]]
    /\ stack = [v \in ids |-> <<>>]
    /\ call_stack = [v \in ids |-> <<>>]
    /\ pc = [v \in ids |-> 0]
    /\ reflection \in [ids -> BOOLEAN]
    /\ status = [v \in ids |-> "idle"]
    /\ err = [v \in ids |-> NoError]
    /\ heap_mem = WriteHeaders([a \in 0 .. (MAX_HEAP_SIZE - 1) |-> 0], <<Hole(0, ArenaSize)>>)
    /\ holes = <<Hole(0, ArenaSize)>>
    /\ heap_corrupt = FALSE
    /\ allocs = {}
    /\ runs = [v \in ids |-> 0]
    /\ last = [vm |-> 0, ins |-> Op0("New"), pre |-> M(1)]

Init == Constructed({1})
InitShared == Constructed({1, 2}) /\ \A v \in vms : ~reflection[v]

\* an execute that starts every program at its first instruction
ExecuteRewinding(v) ==
    /\ \/ status[v] = "idle"
       \/ status[v] \in {"ok", "error"} /\ runs[v] < MaxRuns
    /\ \E program \in (IF runs[v] = 0 THEN Loadable(v) ELSE Reloadable) :
          /\ instructions' = [instructions EXCEPT ![v] = program.instructions]
          /\ labels' = [labels EXCEPT ![v] = program.labels]
          /\ data' = [data EXCEPT ![v] = program.data]
    /\ pc' = [pc EXCEPT ![v] = 0]
    /\ status' = [status EXCEPT ![v] = "running"]
    /\ err' = [err EXCEPT ![v] = NoError]
    /\ runs' = [runs EXCEPT ![v] = @ + 1]
    /\ last' = [vm |-> v, ins |-> Op0("Execute"), pre |-> M(v)]
    /\ UNCHANGED <<vms, registers, flags, slots, stack, call_stack, reflection,
                   heap_mem, holes, heap_corrupt, allocs>>

\* Vm::execute takes the program; the loop starts at the pc the VM has, with
\* the stacks, registers and flags an earlier execute on this VM left
Execute(v) ==
    /\ \/ status[v] = "idle"
       \/ status[v] \in {"ok", "error"} /\ runs[v] < MaxRuns
    /\ \E program \in (IF runs[v] = 0 THEN Loadable(v) ELSE Reloadable) :
          /\ instructions' = [instructions EXCEPT ![v] = program.instructions]
          /\ labels' = [labels EXCEPT ![v] = program.labels]
          /\ data' = [data EXCEPT ![v] = program.data]
    /\ status' = [status EXCEPT ![v] = "running"]
    /\ err' = [err EXCEPT ![v] = NoError]
    /\ runs' = [runs EXCEPT ![v] = @ + 1]
    /\ last' = [vm |-> v, ins |-> Op0("Execute"), pre |-> M(v)]
    /\ UNCHANGED <<vms, registers, flags, slots, stack, call_stack, pc, reflection,
                   heap_mem, holes, heap_corrupt, allocs>>

Next ==
    \/ \E v \in vms : Execute(v)
    \/ \E v \in vms : ExecMove(v)
    \/ \E v \in vms : ExecPush(v)
    \/ \E v \in vms : ExecPop(v)
    \/ \E v \in vms : ExecAdd(v)
    \/ \E v \in vms : ExecMul(v)
    \/ \E v \in vms : ExecSub(v)
    \/ \E v \in vms : ExecDiv(v)
    \/ \E v \in vms : ExecMod(v)
    \/ \E v \in vms : ExecInput(v)
    \/ \E v \in vms : ExecCall(v)
    \/ \E v \in vms : ExecRet(v)
    \/ \E v \in vms : ExecTest(v)
    \/ \E v \in vms : ExecJmp(v)
    \/ \E v \in vms : ExecJe(v)
    \/ \E v \in vms : ExecJne(v)
    \/ \E v \in vms : ExecJl(v)
    \/ \E v \in vms : ExecJg(v)
    \/ \E v \in vms : ExecJle(v)
    \/ \E v \in vms : ExecJge(v)
    \/ \E v \in vms : ExecXor(v)
    \/ \E v \in vms : ExecDup(v)
    \/ \E v \in vms : ExecAlloc(v)
    \/ \E v \in vms : ExecFree(v)
    \/ \E v \in vms : ExecLoad(v)
    \/ \E v \in vms : ExecStore(v)
    \/ \E v \in vms : ExecNop(v)
    \/ \E v \in vms : ExecHlt(v)
    \/ \E v \in vms : ExecIgl(v)
    \/ \E v \in vms : ExecAssert(v)
    \/ \E v \in vms : ExecuteReturn(v)
    \/ \E v \in vms : Reset(v)
    \/ \E v \in vms : Drop(v)

Spec == Init /\ [][Next]_vars
SpecShared == InitShared /\ [][Next]_vars
\* a VM is inside the loop of execute
Runnable == \E v \in vms : status[v] = "running"
\* execute is a loop on a thread that nothing blocks: while a VM is inside
\* the loop, steps go on being taken. This is weak fairness of the steps of
\* a running VM, WF_vars(Runnable /\ Next), with ENABLED written out: a
\* running VM always has its next dispatch, or the end of the loop, enabled.
SpecLive == Init /\ [][Next]_vars /\ (<>[]Runnable => []<><<Runnable>>_vars)

-----------------------------------------------------------------------------
(* Properties of control flow and of the flags. last.pre is the state the   *)
(* instruction last.ins of VM last.vm was dispatched in.                    *)

Ran(v, ops) == last.vm = v /\ last.ins.opcode \in ops
\* the label a jump or a call names
LabelKey(ins) == Display(LastOperand(ins.operand), heap_mem)

\* C1: call/ret round trip. A call of a program label at index i pushes i + 1
\* and goes to the label; every entry of the call stack a program built up
\* from empty is the index after such a call; a ret continues at the entry
\* it pops and leaves the call stack as deep as it was before the call that
\* pushed the entry.
C1_CallRetRoundTrip ==
    \A v \in vms :
        /\ runs[v] <= 1 => \A k \in 1..Len(call_stack[v]) :
              LET e == call_stack[v][k]
              IN /\ e >= 1 /\ e <= Len(instructions[v])
                 /\ instructions[v][e].opcode = "Call"
                 /\ LabelKey(instructions[v][e]) \in DOMAIN labels[v]
        /\ (Ran(v, {"Ret"}) /\ status[v] = "running") =>
              /\ pc[v] = LastOperand(last.pre.call_stack)
              /\ call_stack[v] = ButLast(last.pre.call_stack)
        /\ (Ran(v, {"Call"}) /\ status[v] = "running"
              /\ LabelKey(last.ins) \in DOMAIN labels[v]) =>
              /\ call_stack[v] = Append(last.pre.call_stack, last.pre.pc + 1)
              /\ pc[v] = labels[v][LabelKey(last.ins)]

\* the inner ret of a call inside a call: back at 3, the outer entry left
C1_Witness ==
    /\ Ran(1, {"Ret"}) /\ instructions[1] = NestedCall.instructions
    /\ last.pre.call_stack = <<1, 3>> /\ pc[1] = 3 /\ call_stack[1] = <<1>>

\* the largest index a label of VM v names, or the instruction count
Farthest(v) ==
    LET targets == {labels[v][k] : k \in DOMAIN labels[v]} \cup {Len(instructions[v])}
    IN CHOOSE t \in targets : \A u \in targets : u <= t

\* C2, as the code has it: in a VM's first execute pc never passes the larger
\* of the instruction count and the largest label target; an instruction is
\* dispatched only at a pc below the count, and the loop ends only at a pc at
\* or past it.
C2_PcBound ==
    \A v \in vms :
        /\ runs[v] <= 1 => pc[v] <= Farthest(v)
        /\ Ran(v, {"Return"}) => last.pre.pc >= Len(instructions[v])
        /\ (last.vm = v /\ last.ins.opcode \notin {"New", "Execute", "Return", "Reset", "Drop"}) =>
              last.pre.pc < Len(instructions[v])
        /\ status[v] = "ok" =>
              \/ pc[v] >= Len(instructions[v])
              \/ instructions[v][pc[v] + 1].opcode = "Hlt"

\* test_je: the jump to a label one past the end has ended the run
C2_Witness ==
    /\ Ran(1, {"Return"}) /\ status[1] = "ok"
    /\ pc[1] = Len(instructions[1]) + 1 /\ labels[1] = (AtE :> 6)

\* C2: the program counter is at most the instruction count, and execution
\* halts exactly when it equals the count.
C2_PcAtMostCount ==
    \A v \in vms :
        /\ pc[v] <= Len(instructions[v])
        /\ Ran(v, {"Return"}) => last.pre.pc = Len(instructions[v])

\* C3: an instruction other than test and assert leaves the three flags as
\* they were, so a conditional jump acts on the most recent test.
C3_FlagsFrame ==
    \A v \in vms : (last.vm = v /\ last.ins.opcode \notin {"Test", "Assert"}) =>
                       flags[v] = last.pre.flags

\* the jg of Tour, thirty instructions after the test of 7 against 5
C3_Witness ==
    /\ Ran(1, {"Jg"}) /\ instructions[1] = Tour.instructions
    /\ flags[1] = [equals |-> FALSE, less_than |-> FALSE, greater_than |-> TRUE]
    /\ pc[1] = Tour.labels[AtG]

\* the operands a test compared
Compared(ins, m) ==
    LET c == LastOperand(ins.operand)
    IN [a |-> m.registers[LastOperand(ButLast(ins.operand)).r],
        b |-> IF c.t = "Register" THEN m.registers[c.r] ELSE c]
Tested(v) ==
    /\ Ran(v, {"Test"}) /\ status[v] = "running"
NumericKinds == {"Byte", "Short", "Int", "UInt", "Float"}
IsNaN(f) == f.t = "Float" /\ f.k = "nan"
OneOf(f) == Cardinality({x \in {"equals", "less_than", "greater_than"} : f[x]}) = 1

\* C4, as the code has it: after a test of same-kind numerics neither of
\* which is a not-a-number, exactly the flag of their order is set; less_than
\* and greater_than are never both set; values of different kinds, and a
\* not-a-number against anything, leave all three clear; nothing of the
\* flags before the test remains.
C4_ComparisonLaw ==
    \A v \in vms : Tested(v) =>
        LET c == Compared(last.ins, last.pre)
        IN /\ (c.a.t = c.b.t /\ c.a.t \in NumericKinds /\ ~IsNaN(c.a) /\ ~IsNaN(c.b)) =>
                 /\ flags[v] = [equals |-> c.a.n = c.b.n, less_than |-> c.a.n < c.b.n,
                                greater_than |-> c.a.n > c.b.n]
                 /\ OneOf(flags[v])
           /\ ~(flags[v].less_than /\ flags[v].greater_than)
           /\ (c.a.t # c.b.t \/ IsNaN(c.a) \/ IsNaN(c.b)) => flags[v] = NoFlags

\* a not-a-number tested against itself, after a test that set equals
C4_Witness ==
    /\ Tested(1) /\ IsNaN(Compared(last.ins, last.pre).a)
    /\ last.pre.flags.equals /\ flags[1] = NoFlags

\* C4: after a test of same-kind numerics exactly one of the flags is set.
C4_ExactlyOneFlag ==
    \A v \in vms : Tested(v) =>
        LET c == Compared(last.ins, last.pre)
        IN (c.a.t = c.b.t /\ c.a.t \in NumericKinds) => OneOf(flags[v])

\* the condition of a conditional jump
Condition(op, f) ==
    CASE op = "Je" -> f.equals
      [] op = "Jne" -> ~f.equals
      [] op = "Jl" -> f.less_than
      [] op = "Jg" -> f.greater_than
      [] op = "Jle" -> f.equals \/ f.less_than
      [] op = "Jge" -> f.equals \/ f.greater_than

\* C5: a conditional jump goes to labels[label] iff its condition holds on
\* the flags; when it does not, the jump falls through to pc + 1 whether the
\* label exists or not; mov ra,7; mov rb,5; test ra,rb; jle L; mov rc,5
\* ends with rc = 5.
C5_ConditionalJump ==
    \A v \in vms :
        /\ Ran(v, ConditionalJumps) =>
              IF Condition(last.ins.opcode, last.pre.flags)
              THEN IF LabelKey(last.ins) \in DOMAIN labels[v]
                   THEN pc[v] = labels[v][LabelKey(last.ins)] /\ status[v] = "running"
                   ELSE pc[v] = last.pre.pc /\ status[v] = "error"
              ELSE pc[v] = last.pre.pc + 1 /\ status[v] = "running"
        /\ (instructions[v] = CondJump("Jle", 7, 5, NoLabels).instructions
              /\ status[v] = "ok") => registers[v]["rc"] = TypeInt(5)

\* the scenario with no label L at all: the run ends with rc = 5
C5_Witness ==
    /\ instructions[1] = CondJump("Jle", 7, 5, NoLabels).instructions
    /\ labels[1] = NoLabels /\ status[1] = "ok" /\ registers[1]["rc"] = TypeInt(5)

-----------------------------------------------------------------------------
(* Properties of the heap. allocs holds the blocks handed out and not yet   *)
(* given back: a record the code does not keep.                             *)

\* the pointer is the one of a block handed out and not yet given back
Live(p, al) == \E x \in al : x.addr = p.n /\ x.size = p.size
\* the cells of a pointer's block
Block(p) == p.n .. (p.n + p.size - 1)
\* the cells of HEAP_MEM the last instruction changed
Changed == {c \in DOMAIN heap_mem : heap_mem[c] # last.pre.mem[c]}

\* the destination and the source of a mov
Dest(ins) == LastOperand(ButLast(ins.operand))
Source(ins) == LastOperand(ins.operand)
\* the operand is an index into the block of a pointer
Indexes(o, m) == o.t = "RegisterWithOffsets" /\ m.registers[o.r].t = "Pointer"
\* the last instruction of VM v was a mov that wrote, or read, through a pointer
Wrote(v) == Ran(v, {"Move"}) /\ Indexes(Dest(last.ins), last.pre)
Read(v) == Ran(v, {"Move"}) /\ Indexes(Source(last.ins), last.pre)
\* the offset an indexed operand resolves to, as the isize the pointer is moved by
Resolved(o, m) == AsI64(ToU(GetSource(m, o).field).u)

\* C6: an indexed read or write through a pointer whose block was freed makes
\* execute return an error, with pc at the mov and the arena untouched.
C6_UseAfterFreeDetected ==
    \A v \in vms :
        Ran(v, {"Move"}) =>
            \A o \in {Dest(last.ins), Source(last.ins)} :
                (Indexes(o, last.pre)
                    /\ ~Live(last.pre.registers[o.r], last.pre.allocs)) =>
                    /\ status[v] = "error"
                    /\ pc[v] = last.pre.pc
                    /\ heap_mem = last.pre.mem

\* C7: a free of an address that is no live allocation, through the register
\* of the alloc or through a copy, makes execute return an error and gives
\* nothing back to the allocator.
C7_SecondFreeIsError ==
    \A v \in vms :
        (Ran(v, {"Free"}) /\ Source(last.ins).t = "Register"
            /\ last.pre.registers[Source(last.ins).r].t = "Pointer"
            /\ ~Live(last.pre.registers[Source(last.ins).r], last.pre.allocs)) =>
            /\ status[v] = "error"
            /\ holes = last.pre.holes

\* C8: an indexed access stays inside the allocation: a read is of an offset
\* 0 <= k < s, and a write changes no cell outside the block of the pointer
\* and never leaves HEAP_MEM.
C8_AccessInsideAllocation ==
    \A v \in vms :
        /\ (Read(v) /\ status[v] = "running") =>
              LET p == last.pre.registers[Source(last.ins).r]
                  k == Resolved(Source(last.ins), last.pre)
              IN 0 <= k /\ k < p.size
        /\ Wrote(v) =>
              /\ status[v] # "ub"
              /\ Changed \subseteq Block(last.pre.registers[Dest(last.ins).r])

\* C9: an indexed write changes bytes of its own allocation only, and those
\* at or after the offset k: the bytes before k, and the bytes of every other
\* live allocation, are as they were.
C9_WriteFrame ==
    \A v \in vms :
        (Wrote(v) /\ status[v] = "running") =>
            LET p == last.pre.registers[Dest(last.ins).r]
                k == Resolved(Dest(last.ins), last.pre)
            IN \A c \in Changed :
                   /\ \A x \in allocs : (x.addr # p.n /\ c >= x.addr) => c >= x.addr + x.size
                   /\ c \in Block(p) => c >= p.n + k

\* the match of execute on the opcode, with the values the reads of open
\* bytes, the host and standard input give
Step(m, b, x, line) ==
    LET ins == m.instructions[m.pc + 1]
        op == ins.opcode
    IN CASE op = "Move" -> OpMove(m, ins, b)
         [] op = "Push" -> OpPush(m, ins)
         [] op = "Pop" -> OpPop(m, ins)
         [] op = "Add" -> OpAdd(m, ins)
         [] op = "Sub" -> OpSub(m, ins)
         [] op = "Mul" -> OpMul(m, ins)
         [] op = "Div" -> OpDiv(m, ins)
         [] op = "Mod" -> OpMod(m, ins)
         [] op = "Xor" -> OpXor(m, ins)
         [] op = "Input" -> OpInput(m, line)
         [] op = "Call" -> OpCall(m, ins, x)
         [] op = "Ret" -> OpRet(m)
         [] op = "Test" -> OpTest(m, ins)
         [] op = "Assert" -> OpAssert(m, ins)
         [] op = "Jmp" -> OpJmp(m, ins)
         [] op = "Je" -> OpJe(m, ins)
         [] op = "Jne" -> OpJne(m, ins)
         [] op = "Jl" -> OpJl(m, ins)
         [] op = "Jg" -> OpJg(m, ins)
         [] op = "Jle" -> OpJle(m, ins)
         [] op = "Jge" -> OpJge(m, ins)
         [] op = "Dup" -> OpDup(m)
         [] op = "Alloc" -> OpAlloc(m, ins)
         [] op = "Free" -> OpFree(m, ins)
         [] op = "Hlt" -> OpHlt(m)
         [] op = "Igl" -> OpIgl(m)
         [] OTHER -> OpNop(m)

\* the longest run followed to its end
MaxSteps == 40

\* execute of the program of m with no other VM at work, for n steps at most
RECURSIVE RunAlone(_, _)
RunAlone(m, n) ==
    IF m.status # "running" \/ n = 0 THEN m
    ELSE IF m.pc >= Len(m.instructions) THEN [m EXCEPT !.status = "ok"]
    ELSE RunAlone(Step(m, 0, 0, <<>>), n - 1)

\* VM v as it was constructed, alone on a heap nothing has touched, with the
\* program it has now
Alone(v) ==
    [id |-> v, instructions |-> instructions[v], labels |-> labels[v], data |-> data[v],
     registers |-> [r \in Register |-> FieldDefault], flags |-> NoFlags,
     slots |-> [stack_len |-> FieldDefault, call_stack_len |-> FieldDefault,
                pc |-> FieldDefault],
     stack |-> <<>>, call_stack |-> <<>>, pc |-> 0, reflection |-> reflection[v],
     status |-> "running", err |-> NoError,
     mem |-> WriteHeaders([a \in 0 .. (MAX_HEAP_SIZE - 1) |-> 0], <<Hole(0, ArenaSize)>>),
     holes |-> <<Hole(0, ArenaSize)>>, corrupt |-> FALSE, allocs |-> {}]

\* C10: two VMs have disjoint heaps: a run of a VM ends as the run of the same
\* program ends with no other VM at work, every alloc and free succeeding or
\* failing alike.
C10_DisjointHeaps ==
    \A v \in vms :
        status[v] \in {"ok", "error", "panic", "ub"} =>
            LET alone == RunAlone(Alone(v), MaxSteps)
            IN alone.status # "running" =>
                  /\ status[v] = alone.status
                  /\ err[v].message = alone.err.message
                  /\ \A r \in Register : registers[v][r].t = alone.registers[r].t

-----------------------------------------------------------------------------
(* Properties of the data instructions. *)

\* a mov between two plain registers
RegisterMove(ins) ==
    /\ ins.opcode = "Move" /\ Len(ins.operand) = 2
    /\ ins.operand[1].t = "Register" /\ ins.operand[2].t = "Register"
\* a value the comparison of Type finds unequal to itself
Irreflexive(f) == IsNaN(f) \/ f.t = "Object"

\* C11: move identity. After mov dst, src between plain registers dst holds
\* the value src held before, kind and payload, every register but dst is
\* as it was, and dst compares equal to the old value of src unless that
\* value is a not-a-number float or an object, which equal nothing.
C11_MoveIdentity ==
    \A v \in vms : (last.vm = v /\ RegisterMove(last.ins)) =>
        LET dst == last.ins.operand[1].r
            old == last.pre.registers[last.ins.operand[2].r]
        IN /\ status[v] = "running"
           /\ registers[v][dst] = old
           /\ \A r \in Register \ {dst} : registers[v][r] = last.pre.registers[r]
           /\ ~Irreflexive(old) => TypeEq(registers[v][dst], old)
           /\ Irreflexive(old) => ~TypeEq(registers[v][dst], old)

\* the second of the chained moves of test_mov: rc is 4, as ra and rb are
C11_Witness ==
    /\ Ran(1, {"Move"}) /\ instructions[1] = TestMov.instructions /\ last.pre.pc = 2
    /\ registers[1]["rc"] = TypeInt(4) /\ registers[1]["rb"] = TypeInt(4)
    /\ registers[1]["ra"] = TypeInt(4)

\* C11 as stated: after every mov between plain registers dst compares equal
\* to the value src held before.
C11_MoveComparesEqual ==
    \A v \in vms : (last.vm = v /\ RegisterMove(last.ins)) =>
        TypeEq(registers[v][last.ins.operand[1].r],
               last.pre.registers[last.ins.operand[2].r])

\* the wrapped result of an operation on two integers of the word; a
\* division by zero may give any integer
Wrapped(op, a, b) ==
    CASE op = "Add" -> {WrapS(a + b, WordBits)}
      [] op = "Sub" -> {WrapS(a - b, WordBits)}
      [] op = "Mul" -> {WrapS(a * b, WordBits)}
      [] op = "Div" -> IF b = 0 THEN MinInt .. MaxInt
                       ELSE {WrapS(TruncDiv(a, b), WordBits)}
      [] op = "Mod" -> IF b = 0 THEN MinInt .. MaxInt
                       ELSE {WrapS(TruncRem(a, b), WordBits)}

\* C12: integer arithmetic is total. add, sub, mul, div and mod on a register
\* holding an integer with an integer operand end without a panic and leave
\* the wrapped result in the register, a zero divisor and MIN by -1 included.
C12_IntegerArithmeticTotal ==
    \A v \in vms :
        (/\ Ran(v, ArithmeticOps) /\ Len(last.ins.operand) = 2
         /\ last.ins.operand[1].t = "Register"
         /\ last.pre.registers[last.ins.operand[1].r].t = "Int"
         /\ Compared(last.ins, last.pre).b.t = "Int") =>
            /\ status[v] = "running"
            /\ registers[v][last.ins.operand[1].r].t = "Int"
            /\ registers[v][last.ins.operand[1].r].n \in
                  Wrapped(last.ins.opcode, Compared(last.ins, last.pre).a.n,
                          Compared(last.ins, last.pre).b.n)

\* a call that names a label of the program
LabelCall(v) ==
    /\ Ran(v, {"Call"}) /\ last.ins.operand # <<>>
    /\ LabelKey(last.ins) \in DOMAIN labels[v]

OpCodes ==
    {"Move", "Push", "Pop", "Add", "Mul", "Sub", "Div", "Mod", "Input", "Call", "Ret",
     "Test", "Jmp", "Je", "Jne", "Jl", "Jg", "Jle", "Jge", "Xor", "Dup", "Alloc", "Free",
     "Load", "Store", "Nop", "Hlt", "Igl", "Assert"}

\* C14: reflection freshness. With reflection on, after every instruction
\* that ran to its end, a jump, a call of a label and a ret included, the
\* slots stack_len, call_stack_len and pc hold the length of the operand
\* stack, the length of the call stack and the program counter.
C14_ReflectionFresh ==
    \A v \in vms :
        (reflection[v] /\ Ran(v, OpCodes) /\ status[v] = "running") =>
            slots[v] = [stack_len |-> TypeUInt(Len(stack[v])),
                        call_stack_len |-> TypeUInt(Len(call_stack[v])),
                        pc |-> TypeUInt(pc[v])]

\* C15: the four-instruction counter. With data _n = 3 the program
\* mov ra,0; L: add ra,1; test ra,_n; jl L ends with ra = 3 and the equals
\* flag set.
C15_CounterReachesThree ==
    \A v \in vms :
        (instructions[v] = Counter.instructions /\ status[v] = "ok") =>
            /\ registers[v]["ra"] = TypeInt(3)
            /\ flags[v].equals

-----------------------------------------------------------------------------
(* Properties of errors. *)

\* execute returned an error from the instruction last.ins of VM v
Failed(v) == last.vm = v /\ status[v] = "error" /\ last.ins.opcode # "Reset"

\* C16: an error freezes the machine at the fault. When execute has returned
\* an error, pc is the index of the instruction that raised it, and the
\* general registers, the operand stack, the call stack and the heap are as
\* they were when that instruction was dispatched; each of the listed faults
\* does return an error.
C16_ErrorFreezesState ==
    \A v \in vms :
        /\ status[v] = "error" => last.vm = v
        /\ Failed(v) =>
              /\ pc[v] = last.pre.pc
              /\ last.ins = instructions[v][pc[v] + 1]
              /\ registers[v] = last.pre.registers
              /\ stack[v] = last.pre.stack
              /\ call_stack[v] = last.pre.call_stack
              /\ heap_mem = last.pre.mem
              /\ holes = last.pre.holes
              /\ allocs = last.pre.allocs
        /\ (last.vm = v /\ last.ins \in Faults /\ last.pre.pc = Len(Prelude)
               /\ SubSeq(instructions[v], 1, Len(Prelude)) = Prelude) =>
              status[v] = "error"

\* an allocation the arena cannot hold, after the prelude: an error at its
\* index, with ra, rb and the block of rd as the prelude left them
C16_Witness ==
    /\ Failed(1) /\ last.ins = Op2("Alloc", R("rc"), TypeInt(200))
    /\ instructions[1] = Faulting(last.ins).instructions
    /\ pc[1] = Len(Prelude) /\ registers[1]["rb"] = TypeInt(4)
    /\ registers[1]["rd"].t = "Pointer" /\ registers[1]["rc"] = FieldDefault
    /\ allocs # {}

\* the indices of the instructions in the window of an error
WindowIndices(e) == {e.stacktrace[i].index : i \in 1..Len(e.stacktrace)}

\* C17: every error execute returns, the unknown-label error of jmp and of a
\* taken conditional jump included, carries a window that holds the faulting
\* instruction and one line per element of the operand stack.
C17_ErrorCarriesWindow ==
    \A v \in vms : Failed(v) =>
        /\ pc[v] \in WindowIndices(err[v])
        /\ Len(err[v].app_stack) = Len(stack[v])

\* C18: the window of an error raised at pc in a program of n instructions
\* holds exactly the instructions max(pc - 4, 0) .. min(pc + 4, n - 1).
C18_WindowFourEachSide ==
    \A v \in vms :
        (Failed(v) /\ last.ins.opcode \notin ConditionalJumps \cup {"Jmp"}) =>
            WindowIndices(err[v]) =
                Max(pc[v] - WindowBefore, 0)
                    .. Min(pc[v] + WindowAfter, Len(instructions[v]) - 1)

-----------------------------------------------------------------------------
(* Properties of the operand stack. *)

\* C19: push x puts exactly one element on the operand stack, the value of
\* register x or data[x] for a symbol of the data map; for every other
\* operand, a symbol the data map does not hold included, execute returns
\* an error and the stack is as it was.
C19_PushOneOrError ==
    \A v \in vms : (Ran(v, {"Push"}) /\ Len(last.ins.operand) = 1) =>
        LET x == last.ins.operand[1]
        IN IF x.t = "Register"
           THEN /\ status[v] = "running"
                /\ stack[v] = Append(last.pre.stack, last.pre.registers[x.r])
           ELSE IF x.t = "String" /\ x.s \in DOMAIN data[v]
           THEN /\ status[v] = "running"
                /\ stack[v] = Append(last.pre.stack, data[v][x.s])
           ELSE /\ status[v] = "error"
                /\ stack[v] = last.pre.stack

\* a push or a pop of a plain register
OnRegister(ins) == Len(ins.operand) = 1 /\ ins.operand[1].t = "Register"

\* C20: push/pop round trip. A pop takes the top of the operand stack into
\* its register and touches no other register; so when push ra has run and
\* pop rb is next, the pop leaves the stack as it was before the push, rb
\* with the value of ra, and ra as it was. A pop on an empty stack is the
\* error "Cannot pop empty stack." and leaves the registers alone.
C20_PushPopRoundTrip ==
    \A v \in vms :
        /\ (Ran(v, {"Pop"}) /\ OnRegister(last.ins) /\ last.pre.stack # <<>>) =>
              /\ status[v] = "running"
              /\ stack[v] = ButLast(last.pre.stack)
              /\ registers[v] = [last.pre.registers EXCEPT
                                    ![last.ins.operand[1].r] = LastOperand(last.pre.stack)]
        /\ (Ran(v, {"Pop"}) /\ OnRegister(last.ins) /\ last.pre.stack = <<>>) =>
              /\ status[v] = "error"
              /\ err[v].message = "Cannot pop empty stack."
              /\ registers[v] = last.pre.registers
        /\ (Ran(v, {"Push"}) /\ OnRegister(last.ins) /\ status[v] = "running"
               /\ pc[v] < Len(instructions[v]) /\ Fetch(v).opcode = "Pop"
               /\ OnRegister(Fetch(v))) =>
              LET ra == last.ins.operand[1].r
                  rb == Fetch(v).operand[1].r
                  n == OpPop(M(v), Fetch(v))
              IN /\ n.status = "running"
                 /\ n.stack = last.pre.stack
                 /\ n.registers[rb] = last.pre.registers[ra]
                 /\ n.registers = [last.pre.registers EXCEPT ![rb] = last.pre.registers[ra]]

\* the pop of push ra; pop rb on a stack that held rc's 9: the 9 is left,
\* rb is 4, ra is 4
C20_Witness ==
    /\ Ran(1, {"Pop"}) /\ instructions[1] = PushPop.instructions
    /\ stack[1] = <<TypeInt(9)>> /\ registers[1]["rb"] = TypeInt(4)
    /\ registers[1]["ra"] = TypeInt(4) /\ status[1] = "running"

\* C21: dup on a stack that holds something makes it one longer, leaves the
\* elements below the top as they were and the two topmost equal to the old
\* top; on an empty stack it is the error "Cannot pop empty stack." and the
\* stack stays empty.
C21_DupDuplicatesTop ==
    \A v \in vms :
        /\ (Ran(v, {"Dup"}) /\ last.pre.stack # <<>>) =>
              /\ status[v] = "running"
              /\ Len(stack[v]) = Len(last.pre.stack) + 1
              /\ SubSeq(stack[v], 1, Len(last.pre.stack)) = last.pre.stack
              /\ stack[v][Len(stack[v])] = LastOperand(last.pre.stack)
        /\ (Ran(v, {"Dup"}) /\ last.pre.stack = <<>>) =>
              /\ status[v] = "error"
              /\ err[v].message = "Cannot pop empty stack."
              /\ stack[v] = <<>>

\* the dup of DupOver: 'x' below, and 4 twice
C21_Witness ==
    /\ Ran(1, {"Dup"}) /\ instructions[1] = DupOver.instructions
    /\ stack[1] = <<CharX, TypeInt(4), TypeInt(4)>>

-----------------------------------------------------------------------------
(* Properties of calls and of symbols. *)

\* a call whose symbol is a built-in's name and no label of the program
BuiltinCalled(v) ==
    /\ Ran(v, {"Call"}) /\ last.ins.operand # <<>>
    /\ LabelKey(last.ins) \notin DOMAIN labels[v]
    /\ LabelKey(last.ins) \in BuiltinNames

\* C22: a call of a built-in writes the built-in's value into r0, touches no
\* other register, leaves the call stack as it was and goes on at pc + 1;
\* so no entry of the call stack is the index after a call of a built-in.
C22_BuiltinCallFrame ==
    \A v \in vms :
        /\ BuiltinCalled(v) =>
              /\ status[v] = "running"
              /\ call_stack[v] = last.pre.call_stack
              /\ pc[v] = last.pre.pc + 1
              /\ \A r \in Register \ {"r0"} : registers[v][r] = last.pre.registers[r]
              /\ \E x \in HostValues :
                    registers[v]["r0"] = BuiltinCall(last.pre, LabelKey(last.ins), x)
              /\ LabelKey(last.ins) = ConcatName =>
                    registers[v]["r0"] =
                        TypeString(Display(last.pre.registers["rd"], heap_mem)
                                   \o Display(last.pre.registers["re"], heap_mem))
              /\ LabelKey(last.ins) = RandomName => registers[v]["r0"].t = "Float"
              /\ LabelKey(last.ins) = PrintlnName => registers[v]["r0"] = FieldDefault
        /\ \A k \in 1..Len(call_stack[v]) :
              LET e == call_stack[v][k]
              IN ~(/\ e >= 1 /\ e <= Len(instructions[v])
                   /\ instructions[v][e].opcode = "Call"
                   /\ LabelKey(instructions[v][e]) \notin DOMAIN labels[v])

\* __concat called inside a function: r0 is "xy", the return address stays
C22_Witness ==
    /\ BuiltinCalled(1) /\ LabelKey(last.ins) = ConcatName
    /\ instructions[1] = BuiltinInside.instructions
    /\ registers[1]["r0"] = TypeString(<<120, 121>>)
    /\ call_stack[1] = <<1>> /\ pc[1] = last.pre.pc + 1

\* a mov into a plain register, or a push, of a symbol the data map holds
DataSymbol(v) ==
    /\ last.vm = v /\ last.ins.operand # <<>>
    /\ LastOperand(last.ins.operand).t = "String"
    /\ LastOperand(last.ins.operand).s \in DOMAIN data[v]

\* C23: the order in which a symbol is resolved. call s goes to labels[s]
\* whenever s is a label, a built-in's name or a data key though it be; it
\* calls a built-in only when s is no label; when s is neither it is an
\* error with pc and the call stack as they were. mov and push of a symbol
\* that is a data key take the data value, a label though it be.
C23_SymbolResolution ==
    \A v \in vms :
        /\ (Ran(v, {"Call"}) /\ last.ins.operand # <<>>) =>
              LET s == LabelKey(last.ins)
              IN IF s \in DOMAIN labels[v]
                 THEN /\ status[v] = "running"
                      /\ pc[v] = labels[v][s]
                      /\ call_stack[v] = Append(last.pre.call_stack, last.pre.pc + 1)
                      /\ registers[v] = last.pre.registers
                 ELSE IF s \in BuiltinNames
                 THEN /\ status[v] = "running"
                      /\ pc[v] = last.pre.pc + 1
                      /\ call_stack[v] = last.pre.call_stack
                 ELSE /\ status[v] = "error"
                      /\ pc[v] = last.pre.pc
                      /\ call_stack[v] = last.pre.call_stack
        /\ (Ran(v, {"Move"}) /\ DataSymbol(v) /\ last.ins.operand[1].t = "Register") =>
              /\ status[v] = "running"
              /\ registers[v][last.ins.operand[1].r] =
                    data[v][LastOperand(last.ins.operand).s]
        /\ (Ran(v, {"Push"}) /\ DataSymbol(v)) =>
              /\ status[v] = "running"
              /\ stack[v] = Append(last.pre.stack, data[v][LastOperand(last.ins.operand).s])

\* the call of Shadow: __random is a label here, so the call goes to 3 and
\* r0 is left alone
C23_Witness ==
    /\ Ran(1, {"Call"}) /\ instructions[1] = Shadow.instructions
    /\ LabelKey(last.ins) \in BuiltinNames \cap DOMAIN labels[1] \cap DOMAIN data[1]
    /\ pc[1] = 3 /\ call_stack[1] = <<1>> /\ registers[1]["r0"] = FieldDefault

\* the whole arena is one free block, as the allocator's init leaves it
ArenaFree == holes = <<Hole(0, ArenaSize)>> /\ allocs = {}

\* C24: after reset() the operand stack and the call stack are empty, the
\* program counter is 0 and the heap has no live allocation, the whole arena
\* being free again as on a newly constructed VM.
C24_ResetRestores ==
    \A v \in vms : (Ran(v, {"Reset"}) /\ status[v] # "panic") =>
        /\ stack[v] = <<>> /\ call_stack[v] = <<>>
        /\ pc[v] = 0
        /\ ArenaFree

\* kinds for which no arithmetic operator, or xor, has a combination
Uncombinable(op, a, b) ==
    \/ a.t = "Int" /\ b.t \in {"String", "Pointer"}
    \/ op = "Xor" /\ "Float" \in {a.t, b.t}

\* C25: an arithmetic opcode or xor on a pair of kinds with no defined
\* combination makes execute return an error; dispatch does not panic, and
\* the destination register is as it was.
C25_UndefinedPairIsTypeError ==
    \A v \in vms :
        (/\ Ran(v, ArithmeticOps \cup {"Xor"}) /\ Len(last.ins.operand) = 2
         /\ last.ins.operand[1].t = "Register"
         /\ Uncombinable(last.ins.opcode, Compared(last.ins, last.pre).a,
                         Compared(last.ins, last.pre).b)) =>
            /\ status[v] = "error"
            /\ registers[v] = last.pre.registers

\* an assert of a register against a second operand
Asserted(v) ==
    /\ Ran(v, {"Assert"}) /\ Len(last.ins.operand) = 2
    /\ last.ins.operand[1].t = "Register"

\* C26: assert compares as test does. When the operands are not equal
\* execute returns the error "Assertion failed" with pc at the assert; when
\* they are equal execution goes on at pc + 1 with the three flags false,
\* whatever they were before.
C26_AssertLikeTest ==
    \A v \in vms : Asserted(v) =>
        LET c == Compared(last.ins, last.pre)
        IN /\ TypeEq(c.a, c.b) = Test(last.pre, last.ins).flags.equals
           /\ IF TypeEq(c.a, c.b)
              THEN /\ status[v] = "running"
                   /\ pc[v] = last.pre.pc + 1
                   /\ flags[v] = NoFlags
              ELSE /\ status[v] = "error"
                   /\ pc[v] = last.pre.pc
                   /\ err[v].message = "Assertion failed"

\* test ra,5 with ra = 7 left greater_than set; assert ra,rb with rb = 7 passed
C26_Witness ==
    /\ Asserted(1) /\ last.pre.flags.greater_than
    /\ last.pre.registers["ra"] = TypeInt(7) /\ last.ins.operand[2] = R("rb")
    /\ status[1] = "running" /\ pc[1] = 4 /\ flags[1] = NoFlags

\* an alloc with a register and a size the code accepts, on a free list no
\* write through a pointer has damaged
Allocating(v) ==
    /\ Ran(v, {"Alloc"}) /\ Len(last.ins.operand) = 2
    /\ last.ins.operand[1].t = "Register"
    /\ AllocationSize(last.pre, last.ins.operand[2]).ok
    /\ ~last.pre.corrupt
\* the n of the alloc
Requested == AllocationSize(last.pre, last.ins.operand[2]).u
\* no free block of the arena has n bytes
NoBlock(hs, n) == \A i \in 1..Len(hs) : hs[i].size < n

\* C27: an alloc r, n for which no free block is large enough returns the
\* error "Cannot allocate heap", with r and the live allocations as they
\* were; an alloc that succeeds leaves in r a pointer whose size is n, to a
\* block that was free, and adds that one allocation.
C27_AllocFailsOrRecordsSize ==
    \A v \in vms : Allocating(v) =>
        LET r == last.ins.operand[1].r
        IN /\ status[v] \in {"running", "error"}
           /\ NoBlock(last.pre.holes, Requested) => status[v] = "error"
           /\ status[v] = "error" =>
                 /\ err[v].message = "Cannot allocate heap"
                 /\ pc[v] = last.pre.pc
                 /\ registers[v] = last.pre.registers
                 /\ allocs = last.pre.allocs
                 /\ holes = last.pre.holes /\ heap_mem = last.pre.mem
           /\ status[v] = "running" =>
                 /\ registers[v][r].t = "Pointer"
                 /\ registers[v][r].size = Requested
                 /\ \E i \in 1..Len(last.pre.holes) :
                       /\ last.pre.holes[i].addr <= registers[v][r].n
                       /\ registers[v][r].n + Requested
                             <= last.pre.holes[i].addr + last.pre.holes[i].size
                 /\ allocs = last.pre.allocs \cup
                       {[addr |-> registers[v][r].n, size |-> Requested, vm |-> v]}

\* the third alloc of 40 after two of 40: 16 bytes are left, rc keeps its 9
C27_Witness ==
    /\ Allocating(1) /\ Requested = 40 /\ Cardinality(last.pre.allocs) = 2
    /\ status[1] = "error" /\ registers[1]["rc"] = TypeInt(9)
    /\ Cardinality(allocs) = 2

\* the arguments deallocate is tried with: addresses of the arena and sizes
DeallocAddresses == {0, 8, 16, 40}
DeallocSizes == {4, 10, 40, MAX_HEAP_SIZE}
\* deallocate(a, size) gave an error value and left the allocator as it was
Rejected(a, size) ==
    LET d == HeapDeallocate([holes |-> holes, mem |-> heap_mem], a, size)
    IN ~d.ok /\ ~d.panic /\ d.holes = holes /\ d.mem = heap_mem

\* C28: deallocate(address, size) with a size other than the one the
\* allocation was made with, or with an address that is not the base of a
\* live allocation, fails with an error value and leaves the allocator's
\* state as it was, in every state of the heap with a live allocation.
C28_InvalidFreeRejected ==
    (~heap_corrupt /\ allocs # {}) =>
        \A a \in DeallocAddresses, size \in DeallocSizes :
            (~\E x \in allocs : x.addr = a /\ x.size = size) => Rejected(a, size)

\* C29: teardown reclaims memory. When a VM has been dropped, a VM that has
\* executed nothing yet (Vm::new assigns no field from the state of the
\* heap, so it is as one constructed after the drop) finds the whole arena
\* free, the other VMs holding no allocation.
C29_TeardownReclaims ==
    \A v \in vms, w \in vms :
        (/\ status[v] = "dropped" /\ status[w] = "idle" /\ ~heap_corrupt
         /\ \A u \in vms \ {v} : status[u] \in {"idle", "dropped"}) =>
            /\ holes = <<Hole(0, ArenaSize)>>
            /\ \A n \in 0..ArenaSize :
                  HeapAllocate([holes |-> <<Hole(0, ArenaSize)>>, mem |-> heap_mem], n).ok
                      => HeapAllocate([holes |-> holes, mem |-> heap_mem], n).ok

\* the integer a term of an offset stands for in state m
TermValue(m, item) ==
    IF item.offset.t = "Int" THEN item.offset.n ELSE m.registers[item.offset.r].n
\* t1 op t2 on the integers
Joined(op, a, b) ==
    CASE op = "Add" -> a + b
      [] op = "Sub" -> a - b
      [] op = "Mul" -> a * b
      [] op = "Div" -> TruncDiv(a, b)
      [] op = "Rem" -> TruncRem(a, b)
      [] OTHER -> b
\* (((t1 op1 t2) op2 t3) ... tk): the first k terms joined from the left
RECURSIVE LeftFold(_, _, _)
LeftFold(m, offs, k) ==
    IF k = 1 THEN TermValue(m, offs[1])
    ELSE Joined(offs[k - 1].operand, LeftFold(m, offs, k - 1), TermValue(m, offs[k]))
\* every term is an integer, none divides by zero, and no partial result
\* leaves the range of the integers
Foldable(m, offs) ==
    /\ offs # <<>>
    /\ \A k \in 1..Len(offs) :
          /\ offs[k].offset.t \in {"Int", "Register"}
          /\ offs[k].offset.t = "Register" => m.registers[offs[k].offset.r].t = "Int"
          /\ (k > 1 /\ offs[k - 1].operand \in {"Div", "Rem"}) => TermValue(m, offs[k]) # 0
    /\ \A k \in 1..Len(offs) : LeftFold(m, offs, k) \in MinInt..MaxInt

\* C30: the offset of a register-with-offsets is the fold of its terms from
\* the left with no precedence, (((t1 op1 t2) op2 t3) ... tn), register
\* terms read when the operand is resolved: a mov from r[...] with r a
\* string reads the character at that offset.
C30_OffsetLeftFold ==
    \A v \in vms :
        \A o \in (IF Ran(v, {"Move"}) /\ Len(last.ins.operand) = 2
                  THEN {x \in {Dest(last.ins), Source(last.ins)} : x.t = "RegisterWithOffsets"}
                  ELSE {}) :
            Foldable(last.pre, o.offsets) =>
                LET k == LeftFold(last.pre, o.offsets, Len(o.offsets))
                    g == GetSource(last.pre, o)
                    s == last.pre.registers[o.r]
                IN /\ g.m.status = "running" /\ g.field = TypeInt(k)
                   /\ (/\ o = Source(last.ins) /\ Dest(last.ins).t = "Register"
                       /\ s.t = "String" /\ k >= 0 /\ k < Len(s.s)) =>
                          /\ status[v] = "running"
                          /\ registers[v][Dest(last.ins).r] = TypeString(<<s.s[k + 1]>>)

\* mov rd, ra[rb+rc*rc] with rb = 1 and rc = 2: the offset is (1+2)*2 = 6, the
\* character g, where precedence would give 5
C30_Witness ==
    /\ Ran(1, {"Move"}) /\ Source(last.ins).t = "RegisterWithOffsets"
    /\ Source(last.ins).offsets =
          <<Term(R("rb"), "Add"), Term(R("rc"), "Mul"), Term(R("rc"), "None")>>
    /\ last.pre.registers["rb"] = TypeInt(1) /\ last.pre.registers["rc"] = TypeInt(2)
    /\ registers[1]["rd"] = TypeString(<<103>>)

\* the last instruction of VM v was a mov that wrote into, or read from, a
\* string at an offset that is a plain integer
IndexesString(o, m) ==
    /\ o.t = "RegisterWithOffsets" /\ m.registers[o.r].t = "String"
    /\ Foldable(m, o.offsets)
    /\ LeftFold(m, o.offsets, Len(o.offsets)) >= 0
StringWritten(v) ==
    /\ Ran(v, {"Move"}) /\ Len(last.ins.operand) = 2
    /\ IndexesString(Dest(last.ins), last.pre)
    /\ Source(last.ins).t \in {"Char", "Int", "String"}
    /\ Source(last.ins).t = "String" => Source(last.ins).s \in DOMAIN last.pre.data
StringRead(v) ==
    /\ Ran(v, {"Move"}) /\ Len(last.ins.operand) = 2
    /\ IndexesString(Source(last.ins), last.pre)
    /\ Dest(last.ins).t = "Register"
\* the text a written value is spliced in as
NewText(x, m) == Display(IF x.t = "String" THEN m.data[x.s] ELSE x, m.mem)

\* C31: indexed access to a register holding a string S. A read at k < |S|
\* gives the one-character string S[k]; a write of new at k with
\* k + |new| <= |S| gives a string of the same length that differs from S
\* only in [k, k + |new|); a write with k + |new| > |S| gives S[0..k)
\* followed by new.
C31_StringIndexing ==
    \A v \in vms :
        /\ StringRead(v) =>
              LET o == Source(last.ins)
                  S == last.pre.registers[o.r].s
                  k == LeftFold(last.pre, o.offsets, Len(o.offsets))
              IN k < Len(S) =>
                    /\ status[v] = "running"
                    /\ registers[v][Dest(last.ins).r] = TypeString(<<S[k + 1]>>)
        /\ StringWritten(v) =>
              LET o == Dest(last.ins)
                  S == last.pre.registers[o.r].s
                  k == LeftFold(last.pre, o.offsets, Len(o.offsets))
                  new == NewText(Source(last.ins), last.pre)
              IN k <= Len(S) =>
                    /\ status[v] = "running"
                    /\ registers[v][o.r] =
                          TypeString(IF k + Len(new) <= Len(S)
                                     THEN SubSeq(S, 1, k) \o new
                                          \o SubSeq(S, k + Len(new) + 1, Len(S))
                                     ELSE SubSeq(S, 1, k) \o new)

\* everything of VM v but pc, status and err is as the last instruction found it
FrameKept(v) ==
    /\ registers[v] = last.pre.registers /\ flags[v] = last.pre.flags
    /\ slots[v] = last.pre.slots
    /\ stack[v] = last.pre.stack /\ call_stack[v] = last.pre.call_stack
    /\ heap_mem = last.pre.mem /\ holes = last.pre.holes /\ allocs = last.pre.allocs

\* C32: jmp L sets pc to labels[L] and touches neither the registers, the
\* flags, the operand stack nor the call stack; when L is no key of the label
\* map execute returns the error "Cannot find label" and pc stays at the jmp.
C32_JmpFrame ==
    \A v \in vms : (Ran(v, {"Jmp"}) /\ last.ins.operand # <<>>) =>
        /\ FrameKept(v)
        /\ IF LabelKey(last.ins) \in DOMAIN labels[v]
           THEN status[v] = "running" /\ pc[v] = labels[v][LabelKey(last.ins)]
           ELSE /\ status[v] = "error" /\ pc[v] = last.pre.pc
                /\ err[v].message = "Cannot find label"

\* the jmp of JmpInside to e: pc 7, with the flag of the test, the pushed 7
\* and the return address of the call all in place
C32_Witness ==
    /\ Ran(1, {"Jmp"}) /\ LabelKey(last.ins) = AtE
    /\ pc[1] = 7 /\ flags[1].greater_than /\ stack[1] = <<TypeInt(7)>>
    /\ call_stack[1] = <<4>> /\ registers[1]["ra"] = TypeInt(7)


\* C33: dispatch consumes a clone of the operand list. The instructions
\* stored in the VM are after an instruction as they were before it, and
\* the instruction dispatched is the stored one with all its operands, so an
\* instruction run again in a loop or in a subroutine called again sees the
\* same operands.
C33_OperandsKept ==
    \A v \in vms :
        (last.vm = v /\ last.ins.opcode \notin {"New", "Execute", "Return", "Reset", "Drop"}) =>
            /\ instructions[v] = last.pre.instructions
            /\ last.ins = instructions[v][last.pre.pc + 1]
            /\ \E p \in Programs \cup SharedPrograms \cup Reloadable :
                  instructions[v] = p.instructions

\* the third add ra,1 of the loop to 3 has both its operands and gives ra = 3
C33_Witness ==
    /\ Ran(1, {"Add"}) /\ instructions[1] = CountTo(3).instructions
    /\ last.pre.registers["ra"] = TypeInt(2)
    /\ last.ins.operand = <<R("ra"), TypeInt(1)>>
    /\ registers[1]["ra"] = TypeInt(3) /\ status[1] = "running"

\* VM 1 runs the counting loop to n
Counting(n) == instructions[1] = CountTo(n).instructions

\* C34: the counting loop terminates. For every n from 1 to the bound the
\* program mov ra,0; mov rb,n; L: add ra,1; test ra,rb; jl L comes to its
\* end with ra = n, equals set and less_than and greater_than clear; the add
\* of the body, the only instruction that changes ra after the first,
\* raises ra by one each time and never past n, so the body runs n times.
C34_CountingLoopHalts ==
    \A n \in Counts :
        /\ [](Counting(n) =>
                 /\ registers[1]["ra"].t = "Int"
                 /\ registers[1]["ra"].n \in 0..n
                 /\ status[1] \notin {"error", "panic", "ub"}
                 /\ Ran(1, {"Add"}) =>
                       registers[1]["ra"].n = last.pre.registers["ra"].n + 1)
        /\ (Counting(n) /\ status[1] = "running") ~>
              (/\ Counting(n) /\ status[1] = "ok" /\ Ran(1, {"Return"})
               /\ pc[1] = Len(instructions[1])
               /\ registers[1]["ra"] = TypeInt(n)
               /\ flags[1] = [equals |-> TRUE, less_than |-> FALSE, greater_than |-> FALSE])

\* the loop to 3 has ended with ra = 3
C34_Witness ==
    /\ Counting(3) /\ status[1] = "ok" /\ registers[1]["ra"] = TypeInt(3)
    /\ flags[1].equals /\ Ran(1, {"Return"})

\* the address range of an allocation
Range(x) == x.addr .. (x.addr + x.size - 1)

\* C35: live allocations never overlap. The address ranges of two
\* allocations that distinct successful allocs returned and that were not
\* themselves freed are disjoint and inside the arena, also after a stale
\* copy of a freed pointer was freed again once its block had been handed
\* out anew.
C35_LiveDisjoint ==
    \A x \in allocs :
        /\ x.addr >= 0 /\ x.addr + x.size <= ArenaSize
        /\ \A y \in allocs \ {x} : Range(x) \cap Range(y) = {}

\* a register reference, plain or with offsets
IsReference(f) == f.t \in {"Register", "RegisterWithOffsets"}

\* C36: registers never store references. With no register reference in the
\* data map, no general register holds a register reference or a register
\* with offsets: every store of a reference stores the value of the register
\* it names.
C36_NoReferenceStored ==
    \A v \in vms :
        (\A k \in DOMAIN data[v] : ~IsReference(data[v][k]))
            => \A r \in DOMAIN registers[v] : ~IsReference(registers[v][r])

\* a value pushed from a register has come back into a register
C36_Witness ==
    /\ last.ins.opcode = "Pop" /\ status[last.vm] = "running"
    /\ \E i \in 1..Len(instructions[last.vm]) :
          /\ instructions[last.vm][i].opcode = "Push"
          /\ instructions[last.vm][i].operand[1].t = "Register"
          /\ i < pc[last.vm]
    /\ registers[last.vm][last.ins.operand[1].r] = LastOperand(last.pre.stack)
    /\ registers[last.vm][last.ins.operand[1].r] # FieldDefault

\* the steps that dispatch an instruction
Dispatched == last.ins.opcode \notin {"New", "Execute", "Return", "Reset", "Drop"}

\* what execute leaves alone at entry and when the loop ends
Kept(v) ==
    /\ pc[v] = last.pre.pc
    /\ stack[v] = last.pre.stack
    /\ call_stack[v] = last.pre.call_stack
    /\ registers[v] = last.pre.registers
    /\ flags[v] = last.pre.flags

\* the step of VM v that follows its entry into execute
AfterEntry(v) ==
    /\ Ran(v, {"Execute"})
    /\ last' # last /\ last'.vm = v

\* C38: execute never resets the program counter, the stacks or the
\* registers. The end of the loop leaves pc where it is, and an execute on a
\* VM that has run a program starts with the pc, the operand stack, the call
\* stack, the registers and the flags it finds: the first instruction it
\* dispatches is the one at that pc, and a program no longer than that pc
\* runs no instruction, the loop ending at once.
C38_ExecuteKeeps ==
    /\ [](\A v \in vms : Ran(v, {"Execute", "Return"}) => Kept(v))
    /\ [][\A v \in vms : AfterEntry(v) =>
              /\ last'.pre.pc = last.pre.pc
              /\ IF last.pre.pc >= Len(instructions[v])
                 THEN /\ last'.ins.opcode = "Return"
                      /\ status'[v] = "ok"
                      /\ <<pc, stack, call_stack, registers, flags>>'
                            = <<pc, stack, call_stack, registers, flags>>
                 ELSE /\ Dispatched'
                      /\ last'.ins = instructions[v][last.pre.pc + 1]
                      /\ last'.pre.stack = last.pre.stack
                      /\ last'.pre.call_stack = last.pre.call_stack
                      /\ last'.pre.registers = last.pre.registers
                      /\ last'.pre.flags = last.pre.flags]_vars

\* a second program of one instruction has ended on a VM left at a later pc
\* with a value on its stack: nothing ran
C38_Witness ==
    /\ Ran(1, {"Return"}) /\ runs[1] = 2 /\ status[1] = "ok"
    /\ instructions[1] = Short.instructions
    /\ pc[1] > Len(instructions[1])
    /\ stack[1] # <<>> /\ last.pre.status = "running"

\* entry e of a call stack is a return address of the program of VM v: the
\* index after a call of one of its labels
ReturnsInto(v, e) ==
    /\ 1 <= e /\ e <= Len(instructions[v])
    /\ instructions[v][e].opcode = "Call"
    /\ instructions[v][e].operand # <<>>
    /\ LabelKey(instructions[v][e]) \in DOMAIN labels[v]

\* C37, as the code has it: in a VM's first execute, which starts with an
\* empty call stack, every entry of the call stack is a return address of
\* the program, and a ret leaves pc at most at the instruction count.
C37_ReturnAddresses ==
    \A v \in vms : runs[v] <= 1 =>
        /\ \A k \in DOMAIN call_stack[v] : ReturnsInto(v, call_stack[v][k])
        /\ (Ran(v, {"Ret"}) /\ status[v] = "running") =>
              /\ ReturnsInto(v, pc[v])
              /\ pc[v] <= Len(instructions[v])

\* a ret has come back from a call made inside a call, the outer return
\* address still on the call stack
C37_Witness ==
    /\ Ran(1, {"Ret"}) /\ status[1] = "running" /\ runs[1] = 1
    /\ call_stack[1] # <<>> /\ ReturnsInto(1, pc[1])
    /\ pc[1] # call_stack[1][1]

\* C37: every entry on the call stack is a valid return address. In every
\* reachable state each entry e has 1 <= e <= instruction count with
\* instruction e-1 a call of a program label, and a ret never sets pc beyond
\* the instruction count.
C37_EveryEntryValid ==
    \A v \in vms :
        /\ \A k \in DOMAIN call_stack[v] : ReturnsInto(v, call_stack[v][k])
        /\ (Ran(v, {"Ret"}) /\ status[v] = "running") => pc[v] <= Len(instructions[v])

\* C39: mutual exclusion on the shared arena. With two VMs running alloc and
\* free in different threads, in every interleaving the address ranges of
\* the allocations live at the same time, of one VM or of both, never
\* overlap, and the free list an allocate finds is whole: its holes in
\* address order, apart from one another and from the live allocations.
C39_SharedDisjoint ==
    /\ \A x \in allocs : \A y \in allocs \ {x} : Range(x) \cap Range(y) = {}
    /\ ~heap_corrupt =>
          /\ \A i \in 1..(Len(holes) - 1) :
                holes[i].addr + holes[i].size <= holes[i + 1].addr
          /\ \A i \in 1..Len(holes) : \A x \in allocs :
                Range(x) \cap (holes[i].addr .. (holes[i].addr + holes[i].size - 1)) = {}

====
